---- MODULE Spec2Model ----
(***************************************************************************)
(* workmux: agent-state reconciliation on the zellij (tab-centric)         *)
(* backend, the done stack behind `set-window-status` / `last-done`, the   *)
(* backend's window and pane operations with the `close` command, the      *)
(* `sandbox run` supervisor, the Lima VM lifecycle, the host-exec shim     *)
(* directory, stream_command, pane setup, shell escaping, the parsing of   *)
(* `limactl list`, select_pane, wait_until_windows_closed, two panes       *)
(* bringing up one VM, and `sandbox stop` / `sandbox prune`.               *)
(*                                                                         *)
(* Strings whose content the code inspects (command lines) are sequences   *)
(* of one-character strings; pane ids and tab names are TLA+ strings.      *)
(***************************************************************************)
EXTENDS Integers, Sequences, FiniteSets, TLC

VARIABLES
    agents,      \* state store: set of AgentState records (one per pane_id)
    panes,       \* what `zellij action list-panes` reports: set of PaneInfo
    now,         \* wall clock, seconds since the epoch
    valOut,      \* outcome of the last validate_agent_alive call
    swResult,    \* outcome of the last switch_to_pane call
    focusedTab,  \* tab the zellij client shows
    doneStack,   \* the persisted done stack, front first
    lastStatus,  \* pane id -> last set-window-status command issued from it
    scenario,    \* pushes since the stack was empty, and last-done returns since
    ldResult,    \* outcome of the last `last-done` command
    pc,          \* per process: where it is in its read-modify-write
    held,        \* per process: the stack it read
    job,         \* per process: the operation it runs
    stack0,      \* the stack before the concurrent processes started
    tabs,        \* names of the tabs `zellij action list-tabs` reports
    paneFocus,   \* number of the pane that has the focus
    pendingClose,\* delayed closes spawned and not yet run
    muxOut,      \* outcome of the last backend call or `close` command
    supPc,       \* supervisor (`sandbox run`): the step it is at
    supLog,      \* supervisor: the steps it has completed, in order
    supExit,     \* supervisor: exit status of the process, once it has ended
    rpcToken,    \* supervisor: the token generate_token returned
    rpcCtx,      \* supervisor: the RpcContext handed to the acceptor thread
    rpcOut,      \* response to the last RPC request
    hostActions, \* host actions the RPC server has carried out
    vms,         \* VM name -> status `limactl list` reports, or "absent"
    limaOut,     \* outcome of the last call into LimaInstance
    shimDir,     \* entries of <state_dir>/shims/bin
    shimProc,    \* per create_shim_directory call in progress: where it is
    shimRun,     \* command list, and outcomes of the calls that returned
    stream,      \* stream_command: main thread, child and the two pumps
    setup,       \* pane setup: configs, position, events so far
    esc,         \* shell_escape: the string and what the shell reads back
    limaParse,   \* parse_lima_instances: the text given and what it returned
    poll,        \* wait_until_windows_closed: the names and where the loop is
    ensure,      \* per pane that ensures the shared VM: what it read and did
    sbx          \* outcome of the last `sandbox stop` / `sandbox prune`

agentVars == <<agents, panes, now, valOut, swResult, focusedTab>>
doneVars  == <<doneStack, lastStatus, scenario, ldResult>>
procVars  == <<pc, held, job, stack0>>
tabVars   == <<tabs, paneFocus, pendingClose, muxOut>>
supVars   == <<supPc, supLog, supExit, rpcToken, rpcCtx, rpcOut, hostActions>>
vmVars    == <<vms, limaOut>>
moreVars  == <<shimDir, shimProc, shimRun, stream, setup, esc>>
lateVars  == <<limaParse, poll, ensure, sbx>>
restVars  == <<tabVars, supVars, vmVars, moreVars, lateVars>>
vars      == <<agents, panes, now, valOut, swResult, focusedTab,
               doneStack, lastStatus, scenario, ldResult,
               pc, held, job, stack0,
               tabs, paneFocus, pendingClose, muxOut,
               supPc, supLog, supExit, rpcToken, rpcCtx, rpcOut, hostActions,
               vms, limaOut,
               shimDir, shimProc, shimRun, stream, setup, esc,
               limaParse, poll, ensure, sbx>>

----------------------------------------------------------------------------
(* Bounds and program constants *)

\* longest stored command line (characters)
MaxCmdLen == 4
\* longest command line zellij reports for a live pane (characters)
MaxLiveLen == 2
\* longest tracked run of `done` commands, and of last-done calls after it
MaxPushes == 3
MaxReturns == 3

\* zellij.rs:935  heartbeat_fresh_threshold = Duration::from_secs(60)
HeartbeatFreshSecs == 60
\* zellij.rs:942  if heartbeat_age_secs > 300
HeartbeatStaleSecs == 300

\* the characters command lines are built from: a letter, the path
\* separator and whitespace
Chars == {"c", "/", " "}

RECURSIVE StringsUpTo(_)
StringsUpTo(n) ==
    IF n = 0 THEN {<<>>}
    ELSE LET shorter == StringsUpTo(n - 1)
         IN  shorter \cup {Append(s, ch) : s \in {t \in shorter : Len(t) = n - 1}, ch \in Chars}

\* Option<String> and Option<u64>
NoneStr    == [some |-> FALSE, val |-> <<>>]
SomeStr(s) == [some |-> TRUE, val |-> s]
NoneNum    == [some |-> FALSE, val |-> 0]
SomeNum(n) == [some |-> TRUE, val |-> n]

----------------------------------------------------------------------------
(* String helpers, computed as the Rust standard library computes them *)

\* s.split('/').last(): the text after the last '/', all of s when it has none
RECURSIVE SplitSlashLast(_)
SplitSlashLast(s) ==
    IF s = <<>> THEN <<>>
    ELSE IF s[Len(s)] = "/" THEN <<>>
    ELSE Append(SplitSlashLast(SubSeq(s, 1, Len(s) - 1)), s[Len(s)])

\* s.split_whitespace().next(): the first run of non-whitespace characters
RECURSIVE TakeWord(_)
TakeWord(s) ==
    IF s = <<>> \/ s[1] = " " THEN <<>>
    ELSE <<s[1]>> \o TakeWord(Tail(s))

RECURSIVE FirstWord(_)
FirstWord(s) ==
    IF s = <<>> THEN NoneStr
    ELSE IF s[1] = " " THEN FirstWord(Tail(s))
    ELSE SomeStr(TakeWord(s))

\* zellij.rs:67-71
parse_pane_id(pane_id) ==
    CASE pane_id = "terminal_1" -> SomeNum(1)
      [] pane_id = "terminal_2" -> SomeNum(2)
      [] pane_id = "terminal_3" -> SomeNum(3)
      [] OTHER -> NoneNum

\* zellij.rs:77-86
extract_base_command(pane_command, terminal_command) ==
    LET cmd   == IF pane_command.some THEN pane_command ELSE terminal_command
        word  == IF cmd.some THEN FirstWord(cmd.val) ELSE NoneStr
        first == IF word.some THEN word.val ELSE <<>>
    IN  SplitSlashLast(first)

----------------------------------------------------------------------------
(* Agent liveness on the zellij backend *)

\* Result<Option<LivePaneInfo>>
LiveErr         == [ok |-> FALSE, found |-> FALSE, current_command |-> <<>>]
LiveNone        == [ok |-> TRUE,  found |-> FALSE, current_command |-> <<>>]
LiveSome(cmd)   == [ok |-> TRUE,  found |-> TRUE,  current_command |-> cmd]

\* get_live_pane_info matching plugin panes as well
get_live_pane_info_any_kind(paneList, listOk, pane_id) ==
    LET numeric == parse_pane_id(pane_id)
        hits    == {p \in paneList : p.id = numeric.val}
    IN  IF ~listOk THEN LiveErr
        ELSE IF ~numeric.some THEN LiveErr
        ELSE IF hits = {} THEN LiveNone
        ELSE LET pane == CHOOSE p \in hits : TRUE
             IN  LiveSome(extract_base_command(pane.pane_command, pane.terminal_command))

\* zellij.rs:894-927.  listOk: whether `zellij action list-panes` succeeded.
get_live_pane_info(paneList, listOk, pane_id) ==
    LET numeric == parse_pane_id(pane_id)
        hits    == {p \in paneList : p.id = numeric.val /\ ~p.is_plugin}
    IN  IF ~listOk THEN LiveErr
        ELSE IF ~numeric.some THEN LiveErr
        ELSE IF hits = {} THEN LiveNone
        ELSE LET pane == CHOOSE p \in hits : TRUE
             IN  LiveSome(extract_base_command(pane.pane_command, pane.terminal_command))

\* now.as_secs().saturating_sub(last_heartbeat)
heartbeat_age_secs(nowSecs, last_heartbeat) ==
    IF nowSecs >= last_heartbeat THEN nowSecs - last_heartbeat ELSE 0

\* Result<bool> together with whether list-panes was run
ValTrue(q)  == [result |-> "true",  queried |-> q]
ValFalse(q) == [result |-> "false", queried |-> q]
ValErr      == [result |-> "err",   queried |-> TRUE]

\* zellij.rs:948-972: the pane query and the command comparison
validate_by_pane_query(state, paneList, listOk) ==
    LET pane_info     == get_live_pane_info(paneList, listOk, state.pane_id)
        expected_base == SplitSlashLast(state.command)
        actual_base   == SplitSlashLast(pane_info.current_command)
    IN  IF ~pane_info.ok THEN ValErr
        ELSE IF ~pane_info.found THEN ValFalse(TRUE)
        ELSE IF state.command # <<>> /\ pane_info.current_command # <<>>
                /\ expected_base # actual_base
             THEN ValFalse(TRUE)
        ELSE ValTrue(TRUE)

\* validate_agent_alive without the fresh-heartbeat return
validate_agent_alive_no_fresh(state, nowSecs, paneList, listOk) ==
    LET age == heartbeat_age_secs(nowSecs, state.last_heartbeat.val)
    IN  IF state.last_heartbeat.some /\ age > HeartbeatStaleSecs THEN ValFalse(FALSE)
        ELSE validate_by_pane_query(state, paneList, listOk)

\* validate_agent_alive without the stale-heartbeat return
validate_agent_alive_no_stale(state, nowSecs, paneList, listOk) ==
    LET age == heartbeat_age_secs(nowSecs, state.last_heartbeat.val)
    IN  IF state.last_heartbeat.some /\ age < HeartbeatFreshSecs THEN ValTrue(FALSE)
        ELSE validate_by_pane_query(state, paneList, listOk)

\* zellij.rs:929-972
validate_agent_alive(state, nowSecs, paneList, listOk) ==
    LET age == heartbeat_age_secs(nowSecs, state.last_heartbeat.val)
    IN  IF state.last_heartbeat.some /\ age < HeartbeatFreshSecs THEN ValTrue(FALSE)
        ELSE IF state.last_heartbeat.some /\ age > HeartbeatStaleSecs THEN ValFalse(FALSE)
        ELSE validate_by_pane_query(state, paneList, listOk)

----------------------------------------------------------------------------
(* The records and pane lists the model draws from *)

\* PaneInfo as list-panes reports it (zellij.rs:27-46); the fields the
\* liveness check does not read are left out
TermPane(n, pcmd, tcmd) == [id |-> n, is_plugin |-> FALSE, pane_command |-> pcmd, terminal_command |-> tcmd]
PluginPane(n)       == [id |-> n, is_plugin |-> TRUE, pane_command |-> NoneStr, terminal_command |-> NoneStr]

\* AgentState (the fields validate_agent_alive and switch_to_pane read)
AgentState(pid, cmd, hb, win) ==
    [pane_id |-> pid, command |-> cmd, last_heartbeat |-> hb, window_name |-> win]

\* the tab an agent pane was created in
WindowOf(pid) == IF pid = "terminal_1" THEN "wm:a" ELSE "wm:b"

NoValidation == [called |-> FALSE, pane_id |-> "", out |-> ValFalse(FALSE)]

\* heartbeat ages on both sides of each threshold, and a heartbeat ahead
\* of the clock
NowSample == HeartbeatStaleSecs + 1
HeartbeatSamples ==
    {NoneNum} \cup
    {SomeNum(NowSample - age) :
        age \in {0, HeartbeatFreshSecs - 1, HeartbeatFreshSecs,
                 HeartbeatStaleSecs, HeartbeatStaleSecs + 1}} \cup
    {SomeNum(NowSample + 1)}

LiveCommands == {NoneStr} \cup {SomeStr(s) : s \in StringsUpTo(MaxLiveLen)}
TerminalCommands == {NoneStr, SomeStr(<<"c">>), SomeStr(<<"c", "c">>)}

\* pane lists seen from the record of terminal_1: no pane, only a plugin
\* pane with the same number, only another terminal pane, or the pane itself
PaneWorlds ==
    {{}, {PluginPane(1)}, {TermPane(2, SomeStr(<<"c">>), NoneStr)}} \cup
    {{TermPane(1, pcmd, tcmd)} : pcmd \in LiveCommands, tcmd \in TerminalCommands} \cup
    {{TermPane(1, SomeStr(<<"c">>), NoneStr), PluginPane(1)}}

\* "wm:a": a record written when the pane id was the tab name
SampleRecords ==
    {AgentState(pid, cmd, hb, "wm:a") :
        pid \in {"terminal_1", "wm:a"}, cmd \in StringsUpTo(MaxCmdLen), hb \in HeartbeatSamples}

\* Option<String> for pane ids
NoneId    == [some |-> FALSE, val |-> ""]
SomeId(s) == [some |-> TRUE, val |-> s]

\* no run of `done` commands is being followed
Untracked == [pushes |-> <<>>, returns |-> <<>>]
\* `last-done` has not run since the last other command
NoLastDone == [ran |-> FALSE, pane |-> "", exit |-> 0, message |-> ""]

DoneIdle ==
    /\ doneStack = <<>>
    /\ lastStatus = <<>>
    /\ scenario = Untracked
    /\ ldResult = NoLastDone

ProcIdle ==
    /\ pc = <<>>
    /\ held = <<>>
    /\ job = <<>>
    /\ stack0 = <<>>

\* no backend call has been made
NoMuxCall == [op |-> "none"]
TabIdle ==
    /\ tabs = {}
    /\ paneFocus = 0
    /\ pendingClose = {}
    /\ muxOut = NoMuxCall

\* no RPC request has been answered
NoRpcResponse == [kind |-> "none"]
SupIdle ==
    /\ supPc = "idle"
    /\ supLog = <<>>
    /\ supExit = NoneNum
    /\ rpcToken = ""
    /\ rpcCtx = [token |-> "", pane_id |-> ""]
    /\ rpcOut = NoRpcResponse
    /\ hostActions = {}

\* no call into LimaInstance has been made
NoLimaCall == [op |-> "none"]
VmIdle ==
    /\ vms = <<>>
    /\ limaOut = NoLimaCall

\* nothing has run in the shim directory
NoShimRun == [cmds |-> <<>>, results |-> <<>>, first |-> {}]
ShimIdle ==
    /\ shimDir = {}
    /\ shimProc = <<>>
    /\ shimRun = NoShimRun

\* no command is being streamed
NoStream == [main |-> "idle"]
StreamIdle == stream = NoStream

\* no pane is being set up
NoSetup == [phase |-> "idle"]
SetupIdle == setup = NoSetup

\* nothing was escaped
NoEscape == [done |-> FALSE]
EscIdle == esc = NoEscape

MoreIdle == ShimIdle /\ StreamIdle /\ SetupIdle /\ EscIdle

\* nothing was parsed, no wait loop runs, no pane ensures a VM, no sandbox
\* command has run
NoParse == [done |-> FALSE]
NoPoll == [pc |-> "idle"]
NoSandboxCommand == [op |-> "none"]
LateIdle ==
    /\ limaParse = NoParse
    /\ poll = NoPoll
    /\ ensure = <<>>
    /\ sbx = NoSandboxCommand

RestIdle == TabIdle /\ SupIdle /\ VmIdle /\ MoreIdle /\ LateIdle

----------------------------------------------------------------------------
(* SpecValidate: validate_agent_alive applied to one record, one clock     *)
(* reading and one pane list                                               *)

InitValidate ==
    /\ \E r \in SampleRecords : agents = {r}
    /\ panes \in PaneWorlds
    /\ now = NowSample
    /\ valOut = NoValidation
    /\ swResult = "none"
    /\ focusedTab = ""
    /\ DoneIdle
    /\ ProcIdle
    /\ RestIdle

ValidateAgentAlive ==
    \E a \in agents, listOk \in BOOLEAN :
        /\ valOut' = [called |-> TRUE, pane_id |-> a.pane_id,
                      out |-> validate_agent_alive(a, now, panes, listOk)]
        /\ UNCHANGED <<agents, panes, now, swResult, focusedTab>>
        /\ UNCHANGED doneVars
        /\ UNCHANGED procVars
        /\ UNCHANGED restVars

NextValidate == ValidateAgentAlive

SpecValidate == InitValidate /\ [][NextValidate]_vars

----------------------------------------------------------------------------
(* Claims about validate_agent_alive (checked under SpecValidate)          *)

\* zellij.rs:988  format!("terminal_{}", pane.id)
format_pane_id(n) ==
    CASE n = 1 -> "terminal_1"
      [] n = 2 -> "terminal_2"
      [] n = 3 -> "terminal_3"
      [] n = 4 -> "terminal_4"
      [] OTHER -> "terminal_?"

\* the program name of a command line: its first word without the directories
CommandBasename(line) == extract_base_command(SomeStr(line), NoneStr)

\* the record the last validate_agent_alive call was given
Validated == {a \in agents : valOut.called /\ a.pane_id = valOut.pane_id}

HeartbeatWithin(a, secs) ==
    /\ a.last_heartbeat.some
    /\ now - a.last_heartbeat.val < secs
    /\ a.last_heartbeat.val - now < secs

HeartbeatOlderThan(a, secs) ==
    /\ a.last_heartbeat.some
    /\ now - a.last_heartbeat.val > secs

\* the terminal panes of the live list that carry the record's pane id
LivePanesOf(a) == {p \in panes : ~p.is_plugin /\ format_pane_id(p.id) = a.pane_id}

\* C2: a record whose last_heartbeat is within 60 s of the clock validates
\* as alive, and list-panes is not run for it.
C2_FreshHeartbeatAliveWithoutQuery ==
    \A a \in Validated :
        HeartbeatWithin(a, HeartbeatFreshSecs) =>
            valOut.out.result = "true" /\ ~valOut.out.queried

\* a fresh record validated while its pane is gone
C2_Witness ==
    \E a \in Validated :
        /\ HeartbeatWithin(a, HeartbeatFreshSecs)
        /\ now - a.last_heartbeat.val = HeartbeatFreshSecs - 1
        /\ LivePanesOf(a) = {}
        /\ valOut.out.result = "true"

\* C3: a record whose last_heartbeat is more than 300 s old validates as
\* dead, list-panes is not run, and the live pane does not matter.
C3_StaleHeartbeatDeadWithoutQuery ==
    \A a \in Validated :
        HeartbeatOlderThan(a, HeartbeatStaleSecs) =>
            valOut.out.result = "false" /\ ~valOut.out.queried

\* a stale record validated while its pane lives and runs the stored command
C3_Witness ==
    \E a \in Validated :
        /\ HeartbeatOlderThan(a, HeartbeatStaleSecs)
        /\ a.command = <<"c">>
        /\ \E p \in LivePanesOf(a) : p.pane_command = SomeStr(a.command)
        /\ valOut.out.result = "false"

\* no heartbeat, or one aged 60 s to 300 s inclusive
InQueryBand(a) ==
    \/ ~a.last_heartbeat.some
    \/ /\ now - a.last_heartbeat.val >= HeartbeatFreshSecs
       /\ now - a.last_heartbeat.val <= HeartbeatStaleSecs

\* the command the live pane info carries for pane p
LiveCommandOf(p) == extract_base_command(p.pane_command, p.terminal_command)

\* C4: for a record with no heartbeat or one aged 60..300 s, the call
\* answers true exactly when a terminal pane with the record's id is listed
\* and the program name of the stored command line equals the program name
\* the pane runs, whatever path and arguments the stored line carries.
\* Stated for stored lines that name a program and panes that report one.
C4_PaneQueryDecidesByBasename ==
    \A a \in Validated :
        (/\ InQueryBand(a)
         /\ valOut.out.result \in {"true", "false"}
         /\ CommandBasename(a.command) # <<>>
         /\ \A p \in LivePanesOf(a) : LiveCommandOf(p) # <<>>) =>
            (valOut.out.result = "true"
                <=> \E p \in LivePanesOf(a) :
                        CommandBasename(a.command) = CommandBasename(LiveCommandOf(p)))

----------------------------------------------------------------------------
(* SpecReconcile: the state store against a changing pane list             *)

\* clock readings that give a heartbeat a fresh age, an age between the
\* thresholds and a stale age
ClockValues == {0, HeartbeatFreshSecs, HeartbeatStaleSecs + 1}

AgentPaneNumbers == {1, 2}
StoredCommands == {<<>>, <<"c">>, <<"/", "c">>, <<"c", " ", "c">>}
ReportedCommands == {NoneStr, SomeStr(<<"c">>), SomeStr(<<"c", "c">>)}
OpenablePanes ==
    {TermPane(1, pcmd, NoneStr) : pcmd \in ReportedCommands}
        \cup {TermPane(2, SomeStr(<<"c">>), NoneStr), PluginPane(1)}

InitReconcile ==
    /\ agents = {}
    /\ panes = {}
    /\ now = 0
    /\ valOut = NoValidation
    /\ swResult = "none"
    /\ focusedTab = ""
    /\ DoneIdle
    /\ ProcIdle
    /\ RestIdle

\* zellij opens a pane
OpenPane(p) ==
    /\ \A q \in panes : ~(q.id = p.id /\ q.is_plugin = p.is_plugin)
    /\ panes' = panes \cup {p}
    /\ swResult' = "none"
    /\ UNCHANGED <<agents, now, valOut, focusedTab>>
    /\ UNCHANGED doneVars
    /\ UNCHANGED procVars
    /\ UNCHANGED restVars

\* the user closes a pane, or its process ends
ClosePane(p) ==
    /\ p \in panes
    /\ panes' = panes \ {p}
    /\ swResult' = "none"
    /\ UNCHANGED <<agents, now, valOut, focusedTab>>
    /\ UNCHANGED doneVars
    /\ UNCHANGED procVars
    /\ UNCHANGED restVars

Tick ==
    /\ \E t \in ClockValues : t > now /\ now' = t
    /\ swResult' = "none"
    /\ UNCHANGED <<agents, panes, valOut, focusedTab>>
    /\ UNCHANGED doneVars
    /\ UNCHANGED procVars
    /\ UNCHANGED restVars

\* StateStore::save: one record per pane id, written for a pane that exists
SaveAgent(n, cmd) ==
    /\ \E p \in panes : p.id = n /\ ~p.is_plugin
    /\ agents' = {a \in agents : a.pane_id # format_pane_id(n)}
                    \cup {AgentState(format_pane_id(n), cmd, NoneNum, WindowOf(format_pane_id(n)))}
    /\ swResult' = "none"
    /\ UNCHANGED <<panes, now, valOut, focusedTab>>
    /\ UNCHANGED doneVars
    /\ UNCHANGED procVars
    /\ UNCHANGED restVars

\* StateStore::touch_heartbeat, called by the dashboard's refresh
TouchHeartbeat(a) ==
    /\ a \in agents
    /\ agents' = (agents \ {a}) \cup {[a EXCEPT !.last_heartbeat = SomeNum(now)]}
    /\ swResult' = "none"
    /\ UNCHANGED <<panes, now, valOut, focusedTab>>
    /\ UNCHANGED doneVars
    /\ UNCHANGED procVars
    /\ UNCHANGED restVars

\* StateStore::load_reconciled_agents: validate every record, keep the
\* ones that answer true, delete the files of the ones that answer false;
\* an error from a validation ends the load
load_reconciled_agents(store, nowSecs, paneList, listOk) ==
    LET verdict(a) == validate_agent_alive(a, nowSecs, paneList, listOk).result
    IN  [ok    |-> \A a \in store : verdict(a) # "err",
         alive |-> {a \in store : verdict(a) = "true"},
         dead  |-> {a \in store : verdict(a) = "false"}]

\* zellij.rs:568-622.  tabOk: whether list-tabs and go-to-tab succeeded.
switch_to_pane(pane_id, listOk, tabOk) ==
    LET loaded == load_reconciled_agents(agents, now, panes, listOk)
        found  == {a \in loaded.alive : a.pane_id = pane_id}
    IN  IF ~loaded.ok
        THEN /\ \E gone \in SUBSET loaded.dead : agents' = agents \ gone
             /\ swResult' = "load_failed"
             /\ UNCHANGED focusedTab
        ELSE /\ agents' = loaded.alive
             /\ IF found = {}
                THEN swResult' = "not_found" /\ UNCHANGED focusedTab
                ELSE IF ~tabOk
                     THEN swResult' = "tab_failed" /\ UNCHANGED focusedTab
                     ELSE /\ swResult' = "ok"
                          /\ focusedTab' = (CHOOSE a \in found : TRUE).window_name

SwitchToPane ==
    \E n \in AgentPaneNumbers, listOk \in BOOLEAN, tabOk \in BOOLEAN :
        /\ switch_to_pane(format_pane_id(n), listOk, tabOk)
        /\ UNCHANGED <<panes, now, valOut>>
        /\ UNCHANGED doneVars
        /\ UNCHANGED procVars
        /\ UNCHANGED restVars

NextReconcile ==
    \/ \E p \in OpenablePanes : OpenPane(p)
    \/ \E p \in panes : ClosePane(p)
    \/ Tick
    \/ \E n \in AgentPaneNumbers, cmd \in StoredCommands : SaveAgent(n, cmd)
    \/ \E a \in agents : TouchHeartbeat(a)
    \/ SwitchToPane

SpecReconcile == InitReconcile /\ [][NextReconcile]_vars

\* load_reconciled_agents ran to its end in the last step
Reconciled == swResult \in {"ok", "not_found", "tab_failed"}

----------------------------------------------------------------------------
(* The done stack: set-window-status and last-done                         *)

DonePaneNumbers == {1, 2, 3}
DonePaneIds == {format_pane_id(n) : n \in DonePaneNumbers}
StatusCommands == {"working", "waiting", "done", "clear"}

\* the sequence s without the element x, order kept
RECURSIVE Without(_, _)
Without(s, x) ==
    IF s = <<>> THEN <<>>
    ELSE IF Head(s) = x THEN Without(Tail(s), x)
    ELSE <<Head(s)>> \o Without(Tail(s), x)

\* tmux::push_done_pane: remove any existing entry, prepend
push_done_pane(stack, pane) == <<pane>> \o Without(stack, pane)

\* tmux::pop_done_pane: remove if present
pop_done_pane(stack, pane) == Without(stack, pane)

\* the first entry of the stack whose pane still exists, none when there is none
RECURSIVE FirstExisting(_, _)
FirstExisting(stack, existing) ==
    IF stack = <<>> THEN NoneId
    ELSE IF Head(stack) \in existing THEN SomeId(Head(stack))
    ELSE FirstExisting(Tail(stack), existing)

\* last_done(): return the front entry whose pane still exists and rotate
\* it to the back
last_done(stack, existing) ==
    LET front == FirstExisting(stack, existing)
    IN  [pane  |-> front,
         stack |-> IF front.some THEN Append(Without(stack, front.val), front.val) ELSE stack]

\* zellij.rs:128-132, 220-223: the pane id from ZELLIJ_PANE_ID
current_pane_id(envPaneId) ==
    IF envPaneId.some THEN SomeId(format_pane_id(envPaneId.val)) ELSE NoneId

\* set_window_status with the Done arm calling pop_done_pane
set_window_status_dropping_done(cmd, pane, stack) ==
    IF ~pane.some THEN stack ELSE pop_done_pane(stack, pane.val)

\* set_window_status with the Waiting arm leaving the stack alone
set_window_status_waiting_keeps(cmd, pane, stack) ==
    IF ~pane.some THEN stack
    ELSE CASE cmd = "working" -> pop_done_pane(stack, pane.val)
           [] cmd = "waiting" -> stack
           [] cmd = "done"    -> push_done_pane(stack, pane.val)
           [] cmd = "clear"   -> pop_done_pane(stack, pane.val)

\* set_window_status.rs:20-55: the done stack after `set-window-status cmd`.
\* ensure_status_format, set_status and clear_status are the zellij
\* backend's (zellij.rs:818-832): they return Ok and change nothing.
set_window_status(cmd, pane, stack) ==
    IF ~pane.some THEN stack
    ELSE CASE cmd = "working" -> pop_done_pane(stack, pane.val)
           [] cmd = "waiting" -> pop_done_pane(stack, pane.val)
           [] cmd = "done"    -> push_done_pane(stack, pane.val)
           [] cmd = "clear"   -> pop_done_pane(stack, pane.val)

\* the terminal panes that exist
ExistingPaneIds == {format_pane_id(p.id) : p \in {q \in panes : ~q.is_plugin}}

\* the run of `done` commands followed since the stack was empty
ScenarioAfterStatus(cmd, pane) ==
    IF cmd # "done" THEN Untracked
    ELSE IF scenario.pushes # <<>> /\ scenario.returns = <<>>
            /\ Len(scenario.pushes) < MaxPushes
         THEN [scenario EXCEPT !.pushes = Append(@, pane)]
    ELSE IF doneStack = <<>> THEN [pushes |-> <<pane>>, returns |-> <<>>]
    ELSE Untracked

\* set_status that writes the icon to the pane
set_status_writing_pane(pane_id, icon, auto_clear_on_focus, paneSet) ==
    [ok |-> TRUE,
     panes |-> {IF format_pane_id(p.id) = pane_id
                THEN [p EXCEPT !.terminal_command = SomeStr(<<icon>>)] ELSE p : p \in paneSet}]

\* zellij.rs:818-822: Ok(()), the panes as they were
set_status(pane_id, icon, auto_clear_on_focus, paneSet) ==
    [ok |-> TRUE, panes |-> paneSet]

\* zellij.rs:824-827
clear_status(pane_id, paneSet) ==
    [ok |-> TRUE, panes |-> paneSet]

\* zellij.rs:829-832
ensure_status_format(pane_id, paneSet) ==
    [ok |-> TRUE, panes |-> paneSet]

\* `workmux set-window-status cmd` run with ZELLIJ_PANE_ID = envPaneId:
\* nothing outside a session; else ensure_status_format unless the config
\* turns it off or the command is `clear` (its result is dropped), the done
\* stack, and set_status or clear_status, whose error is the command's.
\* lastStatus keeps the command that returned Ok, "failed" for an error.
SetWindowStatus(cmd, envPaneId) ==
    \E status_format \in BOOLEAN :
    LET pane == current_pane_id(envPaneId)
        ensured == IF status_format /\ cmd # "clear"
                   THEN ensure_status_format(pane.val, panes).panes
                   ELSE panes
        shown == IF cmd = "clear" THEN clear_status(pane.val, ensured)
                 ELSE set_status(pane.val, cmd, TRUE, ensured)
    IN  /\ doneStack' = set_window_status(cmd, pane, doneStack)
        /\ IF pane.some
           THEN /\ lastStatus' = [lastStatus EXCEPT ![pane.val] =
                                        IF shown.ok THEN cmd ELSE "failed"]
                /\ scenario' = ScenarioAfterStatus(cmd, pane.val)
                /\ ldResult' = NoLastDone
                /\ panes' = shown.panes
           ELSE UNCHANGED <<lastStatus, scenario, ldResult, panes>>
        /\ UNCHANGED <<agents, now, valOut, swResult, focusedTab>>
        /\ UNCHANGED procVars
        /\ UNCHANGED restVars

\* last_done_run with Ok(false) turned into an error exit
last_done_run_failing_when_empty(switched) ==
    CASE switched = "true"  -> [exit |-> 0, message |-> ""]
      [] switched = "false" -> [exit |-> 1, message |-> "No completed agents found"]
      [] OTHER              -> [exit |-> 1, message |-> ""]

\* last_done.rs:9-17: exit code and output of `workmux last-done`, from
\* what switch_to_last_completed returned ("true", "false" or "err")
last_done_run(switched) ==
    CASE switched = "true"  -> [exit |-> 0, message |-> ""]
      [] switched = "false" -> [exit |-> 0, message |-> "No completed agents found"]
      [] OTHER              -> [exit |-> 1, message |-> ""]

\* tmux::switch_to_last_completed: last_done(), then switch to the pane it
\* returned.  switchOk: whether the switch succeeded.
switch_to_last_completed(stack, existing, switchOk) ==
    LET got == last_done(stack, existing)
    IN  [stack    |-> got.stack,
         pane     |-> got.pane,
         switched |-> IF ~got.pane.some THEN "false"
                      ELSE IF switchOk THEN "true" ELSE "err"]

\* `workmux last-done`
LastDone ==
    \E switchOk \in BOOLEAN :
        LET did == switch_to_last_completed(doneStack, ExistingPaneIds, switchOk)
            out == last_done_run(did.switched)
        IN  /\ doneStack' = did.stack
            /\ ldResult' = [ran |-> TRUE, pane |-> did.pane.val,
                            exit |-> out.exit, message |-> out.message]
            /\ scenario' = IF scenario.pushes # <<>> /\ Len(scenario.returns) < MaxReturns
                           THEN [scenario EXCEPT !.returns = Append(@, did.pane.val)]
                           ELSE Untracked
            /\ UNCHANGED lastStatus
            /\ UNCHANGED agentVars
            /\ UNCHANGED procVars
            /\ UNCHANGED restVars

\* every pane of the session runs an agent; zellij does not reuse the id
\* of a closed pane
InitDone ==
    /\ agents = {}
    /\ panes = {TermPane(n, SomeStr(<<"c">>), NoneStr) : n \in DonePaneNumbers}
    /\ now = 0
    /\ valOut = NoValidation
    /\ swResult = "none"
    /\ focusedTab = ""
    /\ doneStack = <<>>
    /\ lastStatus = [p \in DonePaneIds |-> "none"]
    /\ scenario = Untracked
    /\ ldResult = NoLastDone
    /\ ProcIdle
    /\ RestIdle

\* a status command comes from a pane that exists, or from outside zellij
StatusCommand ==
    \E cmd \in StatusCommands :
        \E env \in {NoneNum} \cup {SomeNum(p.id) : p \in panes} :
            SetWindowStatus(cmd, env)

NextDone ==
    \/ StatusCommand
    \/ LastDone
    \/ \E p \in panes : ClosePane(p)

SpecDone == InitDone /\ [][NextDone]_vars

----------------------------------------------------------------------------
(* Claims about the done stack (checked under SpecDone)                    *)

Range(s) == {s[i] : i \in 1..Len(s)}
NoDuplicates(s) == \A i, j \in 1..Len(s) : s[i] = s[j] => i = j

\* C5: a pane id is in the done stack exactly when the last status command
\* issued from that pane was `done`.
C5_InStackIffLastStatusDone ==
    \A p \in DonePaneIds : (p \in Range(doneStack)) <=> (lastStatus[p] = "done")

\* one pane reported done, then waiting; another reported done
C5_Witness ==
    /\ lastStatus["terminal_1"] = "waiting"
    /\ lastStatus["terminal_2"] = "done"
    /\ lastStatus["terminal_3"] = "clear"
    /\ doneStack = <<"terminal_2">>

ThreeDistinctPushes ==
    /\ Len(scenario.pushes) = 3
    /\ Cardinality(Range(scenario.pushes)) = 3
    /\ Range(scenario.pushes) \subseteq ExistingPaneIds

\* C7 as stated: after done from p1, p2, p3 on an empty stack, three
\* last-done calls return p3, then p1, then p2.
C7_ReturnsP3P1P2 ==
    ThreeDistinctPushes =>
        \A i \in 1..Len(scenario.returns) :
            i <= 3 => scenario.returns[i]
                        = <<scenario.pushes[3], scenario.pushes[1], scenario.pushes[2]>>[i]

\* C7 amended: the three calls return p3, then p2, then p1.
C7_ReturnsP3P2P1 ==
    ThreeDistinctPushes =>
        \A i \in 1..Len(scenario.returns) :
            i <= 3 => scenario.returns[i]
                        = <<scenario.pushes[3], scenario.pushes[2], scenario.pushes[1]>>[i]

C7_Witness ==
    /\ scenario.pushes = <<"terminal_1", "terminal_2", "terminal_3">>
    /\ scenario.returns = <<"terminal_3", "terminal_2", "terminal_1">>
    /\ Range(scenario.pushes) \subseteq ExistingPaneIds

\* C8: the done stack never holds a pane id twice; `done` from p leaves p
\* at the front and the others in their order; `working`, `waiting` and
\* `clear` from p remove p and leave the others in their order.
C8_StackShape ==
    /\ [](NoDuplicates(doneStack))
    /\ [][\A n \in DonePaneNumbers :
            SetWindowStatus("done", SomeNum(n)) =>
                /\ Len(doneStack') > 0
                /\ doneStack'[1] = format_pane_id(n)
                /\ Tail(doneStack') = SelectSeq(doneStack, LAMBDA x : x # format_pane_id(n))]_vars
    /\ [][\A n \in DonePaneNumbers, cmd \in StatusCommands \ {"done"} :
            SetWindowStatus(cmd, SomeNum(n)) =>
                doneStack' = SelectSeq(doneStack, LAMBDA x : x # format_pane_id(n))]_vars

\* a pane that was not at the front reported done again, and another was popped
C8_Witness ==
    /\ doneStack = <<"terminal_1", "terminal_3">>
    /\ scenario = Untracked
    /\ lastStatus["terminal_2"] = "working"

NothingToSwitchTo == \A i \in 1..Len(doneStack) : doneStack[i] \notin ExistingPaneIds

\* C9: when the stack is empty or holds no pane that still exists,
\* last-done switches to no pane, prints "No completed agents found", exits
\* 0 and leaves the stack as it was.
C9_NothingDoneIsNoError ==
    [][(LastDone /\ NothingToSwitchTo) =>
            /\ ldResult'.pane = ""
            /\ ldResult'.message = "No completed agents found"
            /\ ldResult'.exit = 0
            /\ doneStack' = doneStack]_vars

\* last-done ran on a stack whose only pane had been closed
C9_Witness ==
    /\ ldResult.ran
    /\ ldResult.message = "No completed agents found"
    /\ doneStack = <<"terminal_2">>
    /\ "terminal_2" \notin ExistingPaneIds

----------------------------------------------------------------------------
(* SpecDoneConc: two processes on the done stack at once.  Each reads the  *)
(* persisted stack, computes its new value and replaces the file by an     *)
(* atomic rename.                                                          *)

Procs == {1, 2}
NoJob == [op |-> "none", pane |-> ""]
Jobs ==
    {[op |-> cmd, pane |-> p] : cmd \in StatusCommands, p \in DonePaneIds}
        \cup {[op |-> "last-done", pane |-> ""]}

RECURSIVE StacksOver(_)
StacksOver(ids) ==
    {<<>>} \cup UNION {{<<p>> \o t : t \in StacksOver(ids \ {p})} : p \in ids}

\* what a process makes of the stack it read
Apply(j, stack) ==
    IF j.op = "last-done"
    THEN last_done(stack, ExistingPaneIds).stack
    ELSE set_window_status(j.op, SomeId(j.pane), stack)

InitDoneConc ==
    /\ agents = {}
    /\ panes = {TermPane(n, SomeStr(<<"c">>), NoneStr) : n \in DonePaneNumbers}
    /\ now = 0
    /\ valOut = NoValidation
    /\ swResult = "none"
    /\ focusedTab = ""
    /\ stack0 \in StacksOver(DonePaneIds)
    /\ doneStack = stack0
    /\ lastStatus = [p \in DonePaneIds |-> "none"]
    /\ scenario = Untracked
    /\ ldResult = NoLastDone
    /\ pc = [i \in Procs |-> "start"]
    /\ held = [i \in Procs |-> <<>>]
    /\ job = [i \in Procs |-> NoJob]
    /\ RestIdle

\* a pane runs `set-window-status`, or the user runs `last-done`
Begin(i) ==
    /\ pc[i] = "start"
    /\ \E j \in Jobs : job' = [job EXCEPT ![i] = j]
    /\ pc' = [pc EXCEPT ![i] = "read"]
    /\ UNCHANGED <<held, stack0>>
    /\ UNCHANGED doneVars
    /\ UNCHANGED agentVars
    /\ UNCHANGED restVars

\* get the persisted stack
ReadStack(i) ==
    /\ pc[i] = "read"
    /\ held' = [held EXCEPT ![i] = doneStack]
    /\ pc' = [pc EXCEPT ![i] = "write"]
    /\ UNCHANGED <<job, stack0>>
    /\ UNCHANGED doneVars
    /\ UNCHANGED agentVars
    /\ UNCHANGED restVars

\* replace the persisted stack by the new value (atomic rename)
WriteStack(i) ==
    /\ pc[i] = "write"
    /\ doneStack' = Apply(job[i], held[i])
    /\ pc' = [pc EXCEPT ![i] = "done"]
    /\ UNCHANGED <<held, job, stack0>>
    /\ UNCHANGED <<lastStatus, scenario, ldResult>>
    /\ UNCHANGED agentVars
    /\ UNCHANGED restVars

NextDoneConc ==
    \E i \in Procs :
        \/ Begin(i)
        \/ ReadStack(i)
        \/ WriteStack(i)

SpecDoneConc == InitDoneConc /\ [][NextDoneConc]_vars

\* C10: when two processes have both finished, the stack is what the two
\* operations give when applied one after the other, in one of the two
\* orders.
C10_ConcurrentOpsSerialise ==
    (\A i \in Procs : pc[i] = "done") =>
        doneStack \in {Apply(job[2], Apply(job[1], stack0)),
                       Apply(job[1], Apply(job[2], stack0))}

----------------------------------------------------------------------------
(* SpecTabs and SpecPanes: window and pane operations of the zellij        *)
(* backend, and the `close` command that drives them                       *)

\* most panes a tab holds
MaxPanes == 3

\* worktree handles, and the tab names the session can show
Handles == {"a", "b"}
TabNames == {"wm:a", "wm:b", "main"}

\* util::prefixed(prefix, handle) with the prefix "wm:" (close.rs:40,60,64)
prefixed(handle) == CASE handle = "a" -> "wm:a" [] handle = "b" -> "wm:b"

\* close.rs:87: full_target_name.strip_prefix(prefix)
strip_prefix(full_name) ==
    CASE full_name = "wm:a" -> SomeId("a")
      [] full_name = "wm:b" -> SomeId("b")
      [] OTHER -> NoneId

\* close.rs:55: current.starts_with(prefix)
starts_with_prefix(full_name) == strip_prefix(full_name).some

\* zellij.rs:451-453: current_window_name is the focused tab's name, None
\* outside a session
current_window_name(focus) == IF focus = "" THEN NoneId ELSE SomeId(focus)

\* window_exists_by_full_name that finds every window
window_exists_by_full_name_unchecked(full_name, tabSet, inside, listOk) == "true"

\* zellij.rs:442-449: "true", "false" or "err"
window_exists_by_full_name(full_name, tabSet, inside, listOk) ==
    IF ~inside THEN "false"
    ELSE IF ~listOk THEN "err"
    ELSE IF full_name \in tabSet THEN "true" ELSE "false"

\* zellij.rs:360-383.  listOk: list-tabs answered; firstOk, secondOk: exit
\* status of the first and second `zellij action` command the call runs.
\* go-to-tab-name for a name no tab has moves no focus.
kill_window(full_name, tabSet, focus, listOk, firstOk, secondOk) ==
    IF ~listOk THEN [ok |-> FALSE, tabs |-> tabSet, ran |-> <<>>]
    ELSE IF full_name \in tabSet
    THEN IF firstOk
         THEN [ok |-> TRUE, tabs |-> tabSet \ {full_name}, ran |-> <<"close-tab-by-id">>]
         ELSE [ok |-> FALSE, tabs |-> tabSet, ran |-> <<"close-tab-by-id">>]
    ELSE IF ~firstOk
         THEN [ok |-> FALSE, tabs |-> tabSet, ran |-> <<"go-to-tab-name">>]
         ELSE IF secondOk
              THEN [ok |-> TRUE, tabs |-> tabSet \ {focus},
                    ran |-> <<"go-to-tab-name", "close-tab">>]
              ELSE [ok |-> FALSE, tabs |-> tabSet,
                    ran |-> <<"go-to-tab-name", "close-tab">>]

\* zellij.rs:385-414.  The shell command handed to `sh -c`: close by id when
\* the tab was found, by name otherwise; delay.as_secs() of the delay.
schedule_window_close(full_name, delay_ms, tabSet, listOk, spawnOk) ==
    IF ~listOk \/ ~spawnOk THEN [ok |-> FALSE, spawned |-> {}]
    ELSE [ok |-> TRUE,
          spawned |-> {[by_id |-> full_name \in tabSet, tab |-> full_name,
                        sleep |-> delay_ms \div 1000]}]

\* the tab set after a spawned delayed close has run (zellij.rs:395-404)
delayed_close(c, tabSet, focus) ==
    IF c.tab \in tabSet THEN tabSet \ {c.tab}
    ELSE IF c.by_id THEN tabSet
    ELSE tabSet \ {focus}

\* close_target that takes the current window whatever its name
close_target_any_current(name, resolved, worktreeFound, current) ==
    IF ~resolved.some /\ ~name.some
    THEN [ok |-> FALSE, full_target_name |-> "", is_current_target |-> FALSE]
    ELSE IF name.some
    THEN IF ~worktreeFound
         THEN [ok |-> FALSE, full_target_name |-> "", is_current_target |-> FALSE]
         ELSE [ok |-> TRUE, full_target_name |-> prefixed(name.val),
               is_current_target |-> (current = SomeId(prefixed(name.val)))]
    ELSE IF current.some
         THEN [ok |-> TRUE, full_target_name |-> current.val,
               is_current_target |-> TRUE]
         ELSE [ok |-> TRUE, full_target_name |-> prefixed(resolved.val),
               is_current_target |-> FALSE]

\* close_target that takes a named window for another one than the current
close_target_never_current(name, resolved, worktreeFound, current) ==
    IF ~resolved.some /\ ~name.some
    THEN [ok |-> FALSE, full_target_name |-> "", is_current_target |-> FALSE]
    ELSE IF name.some
    THEN IF ~worktreeFound
         THEN [ok |-> FALSE, full_target_name |-> "", is_current_target |-> FALSE]
         ELSE [ok |-> TRUE, full_target_name |-> prefixed(name.val),
               is_current_target |-> FALSE]
    ELSE IF current.some /\ starts_with_prefix(current.val)
         THEN [ok |-> TRUE, full_target_name |-> current.val,
               is_current_target |-> TRUE]
         ELSE [ok |-> TRUE, full_target_name |-> prefixed(resolved.val),
               is_current_target |-> FALSE]

\* close.rs:21-67: the window `close` is about, and whether it is the one
\* the command runs in.  name: the argument; resolved: what resolve_name
\* gave (None: it failed); worktreeFound: git::find_worktree succeeded.
close_target(name, resolved, worktreeFound, current) ==
    IF ~resolved.some /\ ~name.some
    THEN [ok |-> FALSE, full_target_name |-> "", is_current_target |-> FALSE]
    ELSE IF name.some
    THEN IF ~worktreeFound
         THEN [ok |-> FALSE, full_target_name |-> "", is_current_target |-> FALSE]
         ELSE [ok |-> TRUE, full_target_name |-> prefixed(name.val),
               is_current_target |-> (current = SomeId(prefixed(name.val)))]
    ELSE IF current.some /\ starts_with_prefix(current.val)
         THEN [ok |-> TRUE, full_target_name |-> current.val,
               is_current_target |-> TRUE]
         ELSE [ok |-> TRUE, full_target_name |-> prefixed(resolved.val),
               is_current_target |-> FALSE]

\* close_steps that kills the window and also schedules its close
close_steps_both(full_target_name, is_current_target) ==
    <<"stop_containers_for_handle", "kill_window", "schedule_window_close">>

\* close_steps that stops the containers after the window is gone
close_steps_stop_last(full_target_name, is_current_target) ==
    (IF is_current_target THEN <<"schedule_window_close">> ELSE <<"kill_window">>)
        \o <<"stop_containers_for_handle">>

\* close.rs:84-102: the calls `close` makes once the window is known to
\* exist, in order
close_steps(full_target_name, is_current_target) ==
    (IF strip_prefix(full_target_name).some
     THEN <<"stop_containers_for_handle">> ELSE <<>>)
        \o (IF is_current_target
            THEN <<"schedule_window_close">> ELSE <<"kill_window">>)

\* the delay `close` passes to schedule_window_close (close.rs:93)
CloseDelayMs == 100

\* one call of `close`, applied to st = [ok, tabs, spawned, events]; a call
\* that fails ends the command (the `?` at close.rs:93,97)
close_call(step, st, full_name, focus, listOk, firstOk, secondOk) ==
    IF ~st.ok THEN st
    ELSE IF step = "stop_containers_for_handle"
    THEN [st EXCEPT !.events = Append(@, step)]
    ELSE IF step = "kill_window"
    THEN LET k == kill_window(full_name, st.tabs, focus, listOk, firstOk, secondOk)
         IN  [ok |-> k.ok, tabs |-> k.tabs, spawned |-> st.spawned,
              events |-> Append(st.events, step)]
    ELSE LET c == schedule_window_close(full_name, CloseDelayMs, st.tabs, listOk, firstOk)
         IN  [ok |-> c.ok, tabs |-> st.tabs, spawned |-> st.spawned \cup c.spawned,
              events |-> Append(st.events, step)]

RECURSIVE close_calls(_, _, _, _, _, _, _)
close_calls(steps, st, full_name, focus, listOk, firstOk, secondOk) ==
    IF steps = <<>> THEN st
    ELSE close_calls(Tail(steps),
                     close_call(Head(steps), st, full_name, focus, listOk, firstOk, secondOk),
                     full_name, focus, listOk, firstOk, secondOk)

\* the focused tab once the tab set is newTabs: it stays while its tab is
\* open, otherwise zellij moves the focus to a tab that is
FocusMoves(newTabs) ==
    IF focusedTab \in newTabs \/ focusedTab = "" THEN UNCHANGED focusedTab
    ELSE IF newTabs = {} THEN focusedTab' = ""
    ELSE focusedTab' \in newTabs

\* close.rs:15-105: `workmux close [name]`.  stopOk: stop_containers_for_handle
\* stopped the containers; it returns nothing, so `close` goes on either way.
Close ==
    \E name \in {NoneId} \cup {SomeId(h) : h \in Handles},
       resolved \in {NoneId} \cup {SomeId(h) : h \in Handles},
       worktreeFound \in BOOLEAN, listOk \in BOOLEAN,
       firstOk \in BOOLEAN, secondOk \in BOOLEAN, stopOk \in BOOLEAN :
        LET t == close_target(name, resolved, worktreeFound,
                              current_window_name(focusedTab))
            exists == window_exists_by_full_name(t.full_target_name, tabs,
                                                 focusedTab # "", listOk)
            st0 == [ok |-> TRUE, tabs |-> tabs, spawned |-> {}, events |-> <<>>]
            st  == close_calls(close_steps(t.full_target_name, t.is_current_target),
                               st0, t.full_target_name, focusedTab,
                               listOk, firstOk, secondOk)
        IN  /\ IF ~t.ok \/ exists # "true"
               THEN /\ muxOut' = [op |-> "close", ok |-> FALSE, events |-> <<>>,
                                  target |-> t.full_target_name,
                                  focus |-> focusedTab,
                                  before |-> tabs, after |-> tabs, spawned |-> {},
                                  stop_failed |-> FALSE]
                    /\ UNCHANGED <<tabs, pendingClose, focusedTab>>
               ELSE /\ muxOut' = [op |-> "close", ok |-> st.ok, events |-> st.events,
                                  target |-> t.full_target_name,
                                  focus |-> focusedTab,
                                  before |-> tabs, after |-> st.tabs,
                                  spawned |-> st.spawned,
                                  stop_failed |-> ~stopOk]
                    /\ tabs' = st.tabs
                    /\ pendingClose' = pendingClose \cup st.spawned
                    /\ FocusMoves(st.tabs)
            /\ UNCHANGED <<agents, panes, now, valOut, swResult>>
            /\ UNCHANGED paneFocus
            /\ UNCHANGED <<doneVars, procVars, supVars, vmVars>>
            /\ UNCHANGED moreVars
            /\ UNCHANGED lateVars

\* zellij.rs:360-383 called on its own (cleanup paths call it by name)
KillWindow ==
    \E n \in TabNames, listOk \in BOOLEAN, firstOk \in BOOLEAN, secondOk \in BOOLEAN :
        LET k == kill_window(n, tabs, focusedTab, listOk, firstOk, secondOk)
        IN  /\ muxOut' = [op |-> "kill_window", ok |-> k.ok, target |-> n,
                          before |-> tabs, after |-> k.tabs, ran |-> k.ran,
                          focus |-> focusedTab,
                          failed |-> ~(listOk /\ firstOk /\ secondOk)]
            /\ tabs' = k.tabs
            /\ FocusMoves(k.tabs)
            /\ UNCHANGED <<agents, panes, now, valOut, swResult>>
            /\ UNCHANGED <<paneFocus, pendingClose>>
            /\ UNCHANGED <<doneVars, procVars, supVars, vmVars>>
            /\ UNCHANGED moreVars
            /\ UNCHANGED lateVars

\* the shell spawned by schedule_window_close wakes up and runs its command
DelayedCloseRuns ==
    \E c \in pendingClose :
        LET newTabs == delayed_close(c, tabs, focusedTab)
        IN  /\ pendingClose' = pendingClose \ {c}
            /\ tabs' = newTabs
            /\ FocusMoves(newTabs)
            /\ UNCHANGED <<agents, panes, now, valOut, swResult>>
            /\ UNCHANGED <<paneFocus, muxOut>>
            /\ UNCHANGED <<doneVars, procVars, supVars, vmVars>>
            /\ UNCHANGED moreVars
            /\ UNCHANGED lateVars

\* the user or create_window opens a tab; zellij focuses it
OpenTab ==
    \E n \in TabNames \ tabs :
        /\ tabs' = tabs \cup {n}
        /\ focusedTab' = n
        /\ UNCHANGED <<agents, panes, now, valOut, swResult>>
        /\ UNCHANGED <<paneFocus, pendingClose, muxOut>>
        /\ UNCHANGED <<doneVars, procVars, supVars, vmVars>>
        /\ UNCHANGED moreVars
        /\ UNCHANGED lateVars

\* the user moves to another tab
FocusTab ==
    \E n \in tabs \ {focusedTab} :
        /\ focusedTab' = n
        /\ UNCHANGED <<agents, panes, now, valOut, swResult>>
        /\ UNCHANGED tabVars
        /\ UNCHANGED <<doneVars, procVars, supVars, vmVars>>
        /\ UNCHANGED moreVars
        /\ UNCHANGED lateVars

\* the user moves to another pane
FocusPane ==
    \E p \in panes :
        /\ p.id # paneFocus
        /\ paneFocus' = p.id
        /\ UNCHANGED agentVars
        /\ UNCHANGED <<tabs, pendingClose, muxOut>>
        /\ UNCHANGED <<doneVars, procVars, supVars, vmVars>>
        /\ UNCHANGED moreVars
        /\ UNCHANGED lateVars

\* zellij.rs:788-803.  firstOk: `clear --pane-id` succeeded; secondOk: the
\* plain `clear`, which acts on the focused pane, succeeded.
clear_pane(pane_id, focus, firstOk, secondOk) ==
    IF firstOk THEN [ok |-> TRUE, cleared |-> {pane_id}]
    ELSE IF secondOk THEN [ok |-> TRUE, cleared |-> {format_pane_id(focus)}]
    ELSE [ok |-> FALSE, cleared |-> {}]

ClearPane ==
    \E p \in panes, firstOk \in BOOLEAN, secondOk \in BOOLEAN :
        LET c == clear_pane(format_pane_id(p.id), paneFocus, firstOk, secondOk)
        IN  /\ muxOut' = [op |-> "clear_pane", ok |-> c.ok,
                          target |-> format_pane_id(p.id), cleared |-> c.cleared]
            /\ UNCHANGED agentVars
            /\ UNCHANGED <<tabs, paneFocus, pendingClose>>
            /\ UNCHANGED <<doneVars, procVars, supVars, vmVars>>
            /\ UNCHANGED moreVars
            /\ UNCHANGED lateVars

\* zellij.rs:847-890.  new-pane splits the focused pane and prints the id
\* of the pane it made; cmdOk: the command succeeded (and cwd is UTF-8).
split_pane(target_pane_id, focus, cmdOk, newNumber) ==
    IF cmdOk
    THEN [ok |-> TRUE, split |-> format_pane_id(focus),
          pane_id |-> format_pane_id(newNumber)]
    ELSE [ok |-> FALSE, split |-> "", pane_id |-> ""]

SplitPane ==
    \E p \in panes, cmdOk \in BOOLEAN :
        LET newNumber == Cardinality(panes) + 1
            r == split_pane(format_pane_id(p.id), paneFocus, cmdOk, newNumber)
        IN  /\ Cardinality(panes) < MaxPanes
            /\ muxOut' = [op |-> "split_pane", ok |-> r.ok,
                          target |-> format_pane_id(p.id),
                          split |-> r.split, pane_id |-> r.pane_id]
            /\ IF r.ok
               THEN /\ panes' = panes \cup {TermPane(newNumber, NoneStr, NoneStr)}
                    /\ paneFocus' = newNumber
               ELSE UNCHANGED <<panes, paneFocus>>
            /\ UNCHANGED <<agents, now, valOut, swResult, focusedTab>>
            /\ UNCHANGED <<tabs, pendingClose>>
            /\ UNCHANGED <<doneVars, procVars, supVars, vmVars>>
            /\ UNCHANGED moreVars
            /\ UNCHANGED lateVars

\* the session operations of the Multiplexer trait (zellij.rs:244-278,
\* 310-320)
SessionOps ==
    {"create_session", "switch_to_session", "session_exists", "kill_session",
     "schedule_session_close", "get_all_session_names",
     "wait_until_session_closed", "shell_switch_session_cmd",
     "shell_kill_session_cmd"}

Unsupported(text) == [ok |-> FALSE, value |-> "", message |-> text]
Returned(v) == [ok |-> TRUE, value |-> v, message |-> ""]

\* zellij.rs:244-278, 310-320: what each session operation returns
session_op(op) ==
    CASE op = "create_session" ->
            Unsupported("Session mode (--session) is not supported in Zellij. Use window mode instead.")
      [] op = "session_exists" -> Returned("false")
      [] op = "kill_session" -> Returned("()")
      [] op = "get_all_session_names" -> Returned("{}")
      [] OTHER ->
            Unsupported("Session mode is not supported in Zellij. Use window mode instead.")

SessionOp ==
    \E op \in SessionOps :
        /\ muxOut' = [op |-> op, out |-> session_op(op)]
        /\ UNCHANGED agentVars
        /\ UNCHANGED <<tabs, paneFocus, pendingClose>>
        /\ UNCHANGED <<doneVars, procVars, supVars, vmVars>>
        /\ UNCHANGED moreVars
        /\ UNCHANGED lateVars

InitTabs ==
    /\ agents = {}
    /\ panes = {TermPane(1, NoneStr, NoneStr)}
    /\ now = 0
    /\ valOut = NoValidation
    /\ swResult = "none"
    /\ focusedTab = "main"
    /\ tabs = {"main"}
    /\ paneFocus = 1
    /\ pendingClose = {}
    /\ muxOut = NoMuxCall
    /\ DoneIdle
    /\ ProcIdle
    /\ SupIdle
    /\ VmIdle
    /\ MoreIdle
    /\ LateIdle

\* the tabs of the session and the commands that open and close them
NextTabs ==
    \/ Close
    \/ KillWindow
    \/ DelayedCloseRuns
    \/ OpenTab
    \/ FocusTab

SpecTabs == InitTabs /\ [][NextTabs]_vars

\* the panes of one tab and the backend calls made on them
NextPanes ==
    \/ FocusPane
    \/ ClearPane
    \/ SplitPane
    \/ SessionOp

SpecPanes == InitTabs /\ [][NextPanes]_vars

----------------------------------------------------------------------------
(* Claims about `close` and the backend's window and pane operations *)

C12_KillWindowOfMissingTabClosesNothing ==
    (muxOut.op = "kill_window" /\ muxOut.target \notin muxOut.before
        /\ ~muxOut.failed) =>
        muxOut.ok /\ muxOut.after = muxOut.before

\* C13: clear_pane(P) has either cleared P and nothing else, or cleared
\* nothing and returned an error.
C13_ClearPaneClearsOnlyItsTarget ==
    muxOut.op = "clear_pane" =>
        \/ muxOut.cleared = {muxOut.target}
        \/ muxOut.cleared = {} /\ ~muxOut.ok

\* C14: a split_pane(target, ...) that succeeds has split the pane named
\* by target.
C14_SplitPaneSplitsItsTarget ==
    (muxOut.op = "split_pane" /\ muxOut.ok) => muxOut.split = muxOut.target

\* the operations the session-mode contract names
SessionModeOps ==
    {"create_session", "switch_to_session", "kill_session",
     "schedule_session_close", "wait_until_session_closed",
     "shell_switch_session_cmd", "shell_kill_session_cmd"}

SessionModeMessages ==
    {"Session mode (--session) is not supported in Zellij. Use window mode instead.",
     "Session mode is not supported in Zellij. Use window mode instead."}

\* C15: each of the seven session-mode operations returns an error whose
\* message says that session mode is not supported.
C15_SessionOpsReturnUnsupported ==
    muxOut.op \in SessionModeOps =>
        ~muxOut.out.ok /\ muxOut.out.message \in SessionModeMessages

----------------------------------------------------------------------------
(* SpecSupervisor: the `sandbox run` supervisor process and the RPC server *)
(* it starts                                                               *)

\* exit codes a child process returns
ExitCodeMax == 255
ExitCodes == 0 .. ExitCodeMax
\* exit status of the binary when its command handler returns Err
ErrorExit == 1

\* tokens generate_token can return, and tokens a request can carry
Tokens == {"t1", "t2"}
RequestTokens == Tokens \cup {""}
RpcOps == {"Notify", "HostExec"}

\* run with the agent launched before the RPC listener is bound
SupervisorSteps_launch_early ==
    <<"ensure_vm_running", "seed_claude_json", "launch", "bind",
      "generate_token", "spawn">>

\* sandbox_run.rs:34-114: the steps of run, in program order
SupervisorSteps ==
    <<"ensure_vm_running", "seed_claude_json", "bind", "generate_token",
      "spawn", "launch">>

\* run with every failure logged and passed over
aborts_on_failure_never(step) == FALSE

\* run with seed_claude_json under a `?` as well
aborts_on_failure_also_seed(step) ==
    step \in {"ensure_vm_running", "seed_claude_json", "bind", "launch"}

\* sandbox_run.rs:35,44,114: the steps whose error ends run (`?`);
\* seed_claude_json only warns (line 39-41), generate_token and spawn
\* return no Result
aborts_on_failure(step) == step \in {"ensure_vm_running", "bind", "launch"}

\* the step that follows `step` in run; "wait" once the child is running
step_after(step) ==
    LET i == CHOOSE k \in 1 .. Len(SupervisorSteps) : SupervisorSteps[k] = step
    IN  IF i = Len(SupervisorSteps) THEN "wait" ELSE SupervisorSteps[i + 1]

\* exit_code_of that reports success when the child was killed by a signal
exit_code_of_zero_on_signal(status) == IF status.some THEN status.val ELSE 0

\* sandbox_run.rs:116: status.code().unwrap_or(1)
exit_code_of(status) == IF status.some THEN status.val ELSE 1

\* sandbox.rs:68: std::process::exit(exit_code); the parent sees the low
\* eight bits
process_exit(code) == code % (ExitCodeMax + 1)

\* rpc_context that leaves the token field empty
rpc_context_without_token(token, pane_id) == [token |-> "", pane_id |-> pane_id]

\* sandbox_run.rs:53-58: the RpcContext handed to the acceptor thread
rpc_context(token, pane_id) == [token |-> token, pane_id |-> pane_id]

\* the RPC server's answer to one request: a request whose token is not
\* the context's gets Error and nothing runs on the host
handle_request(ctx, reqToken, op) ==
    IF reqToken # ctx.token
    THEN [kind |-> "Error", message |-> "invalid token", acted |-> {}]
    ELSE [kind |-> "Ok", message |-> "",
          acted |-> {IF op = "Notify" THEN "play_sound" ELSE "host_command"}]

LogEntry(step, ok, status) == [step |-> step, ok |-> ok, status |-> status]

\* run has done `step` with outcome ok: on to the next step, or out with
\* an error
Advance(step, ok) ==
    /\ supPc = step
    /\ supLog' = Append(supLog, LogEntry(step, ok, NoneNum))
    /\ IF ~ok /\ aborts_on_failure(step)
       THEN supPc' = "failed" /\ supExit' = SomeNum(ErrorExit)
       ELSE supPc' = step_after(step) /\ UNCHANGED supExit

SupFrame ==
    /\ UNCHANGED agentVars
    /\ UNCHANGED <<doneVars, procVars, tabVars, vmVars>>
    /\ UNCHANGED moreVars
    /\ UNCHANGED lateVars

\* sandbox_run.rs:24-32: an empty command or an unreadable config ends run
\* before any step
StartSupervisor ==
    \E commandEmpty \in BOOLEAN, configOk \in BOOLEAN :
        /\ supPc = "idle"
        /\ IF commandEmpty \/ ~configOk
           THEN supPc' = "failed" /\ supExit' = SomeNum(ErrorExit)
           ELSE supPc' = SupervisorSteps[1] /\ UNCHANGED supExit
        /\ UNCHANGED <<supLog, rpcToken, rpcCtx, rpcOut, hostActions>>
        /\ SupFrame

\* sandbox_run.rs:35
EnsureVmRunning ==
    \E ok \in BOOLEAN :
        /\ Advance("ensure_vm_running", ok)
        /\ UNCHANGED <<rpcToken, rpcCtx, rpcOut, hostActions>>
        /\ SupFrame

\* sandbox_run.rs:39-41
SeedClaudeJson ==
    \E ok \in BOOLEAN :
        /\ Advance("seed_claude_json", ok)
        /\ UNCHANGED <<rpcToken, rpcCtx, rpcOut, hostActions>>
        /\ SupFrame

\* sandbox_run.rs:44-45
BindRpcServer ==
    \E ok \in BOOLEAN :
        /\ Advance("bind", ok)
        /\ UNCHANGED <<rpcToken, rpcCtx, rpcOut, hostActions>>
        /\ SupFrame

\* sandbox_run.rs:46
GenerateToken ==
    \E t \in Tokens :
        /\ Advance("generate_token", TRUE)
        /\ rpcToken' = t
        /\ UNCHANGED <<rpcCtx, rpcOut, hostActions>>
        /\ SupFrame

\* sandbox_run.rs:50-61: the context is built from the token and the
\* current pane id ("" outside a pane), and the acceptor thread starts
SpawnAcceptor ==
    \E pane_id \in {"", "terminal_1"} :
        /\ Advance("spawn", TRUE)
        /\ rpcCtx' = rpc_context(rpcToken, pane_id)
        /\ UNCHANGED <<rpcToken, rpcOut, hostActions>>
        /\ SupFrame

\* sandbox_run.rs:112-114: `limactl shell` is started
LaunchAgent ==
    \E ok \in BOOLEAN :
        /\ Advance("launch", ok)
        /\ UNCHANGED <<rpcToken, rpcCtx, rpcOut, hostActions>>
        /\ SupFrame

\* sandbox_run.rs:112-119 and sandbox.rs:67-68: the child ends, with an
\* exit code or by a signal, and the supervisor exits
AgentExits ==
    \E status \in {NoneNum} \cup {SomeNum(c) : c \in ExitCodes} :
        /\ supPc = "wait"
        /\ supLog' = Append(supLog, LogEntry("child_exit", TRUE, status))
        /\ supExit' = SomeNum(process_exit(exit_code_of(status)))
        /\ supPc' = "exited"
        /\ UNCHANGED <<rpcToken, rpcCtx, rpcOut, hostActions>>
        /\ SupFrame

Spawned == \E i \in 1 .. Len(supLog) : supLog[i].step = "spawn"

\* the acceptor thread serves one request from the guest
HandleRequest ==
    \E reqToken \in RequestTokens, op \in RpcOps :
        LET r == handle_request(rpcCtx, reqToken, op)
        IN  /\ Spawned
            /\ supPc \notin {"exited", "failed"}
            /\ rpcOut' = [kind |-> r.kind, message |-> r.message,
                          acted |-> r.acted, token |-> reqToken]
            /\ hostActions' = hostActions \cup
                                {[action |-> a, token |-> reqToken] : a \in r.acted}
            /\ UNCHANGED <<supPc, supLog, supExit, rpcToken, rpcCtx>>
            /\ SupFrame

InitSupervisor ==
    /\ agents = {}
    /\ panes = {}
    /\ now = 0
    /\ valOut = NoValidation
    /\ swResult = "none"
    /\ focusedTab = ""
    /\ DoneIdle
    /\ ProcIdle
    /\ RestIdle

NextSupervisor ==
    \/ StartSupervisor
    \/ EnsureVmRunning
    \/ SeedClaudeJson
    \/ BindRpcServer
    \/ GenerateToken
    \/ SpawnAcceptor
    \/ LaunchAgent
    \/ AgentExits
    \/ HandleRequest

SpecSupervisor == InitSupervisor /\ [][NextSupervisor]_vars

----------------------------------------------------------------------------
(* Claims about the supervisor *)

\* the exit status of the child, as logged when it ended
ChildStatus == supLog[Len(supLog)].status

\* C16: when the supervisor has exited after its child ended, its exit
\* status is the child's exit code, for every code, and 1 when the child
\* ended without a code.
C16_ExitStatusIsChildExitCode ==
    supPc = "exited" =>
        IF ChildStatus.some
        THEN supExit = SomeNum(ChildStatus.val)
        ELSE supExit = SomeNum(1)

\* the child returned the largest exit code
C16_Witness ==
    /\ supPc = "exited"
    /\ ChildStatus = SomeNum(ExitCodeMax)
    /\ supExit = SomeNum(ExitCodeMax)

\* position of `step` in the log, 0 when it is not there
LogIndex(step) ==
    IF \E i \in 1 .. Len(supLog) : supLog[i].step = step
    THEN CHOOSE i \in 1 .. Len(supLog) : supLog[i].step = step
    ELSE 0

\* C17: when the agent command has been launched, the VM was ensured
\* running (with success), then the listener bound (with success), then
\* the token generated, then the acceptor spawned, all before the launch.
C17_LaunchAfterVmBindTokenSpawn ==
    LogIndex("launch") # 0 =>
        /\ 0 < LogIndex("ensure_vm_running")
        /\ LogIndex("ensure_vm_running") < LogIndex("bind")
        /\ LogIndex("bind") < LogIndex("generate_token")
        /\ LogIndex("generate_token") < LogIndex("spawn")
        /\ LogIndex("spawn") < LogIndex("launch")
        /\ supLog[LogIndex("ensure_vm_running")].ok
        /\ supLog[LogIndex("bind")].ok

\* the agent runs in the VM
C17_Witness ==
    /\ supPc = "wait"
    /\ LogIndex("launch") # 0
    /\ supLog[LogIndex("launch")].ok

\* C18: a request whose token is not the token generated for this
\* supervisor was answered with Error, ran nothing on the host, and the
\* answer does not carry the supervisor's token; every host action was
\* asked for with the supervisor's token.
C18_WrongTokenGetsErrorAndNoAction ==
    /\ (rpcOut.kind # "none" /\ rpcOut.token # rpcToken) =>
            /\ rpcOut.kind = "Error"
            /\ rpcOut.acted = {}
            /\ rpcOut.message # rpcToken
    /\ \A a \in hostActions : a.token = rpcToken

\* a request with another supervisor's token was refused after a request
\* with the right token had been served
C18_Witness ==
    /\ rpcOut.kind = "Error"
    /\ rpcOut.token \in Tokens \ {rpcToken}
    /\ hostActions # {}

----------------------------------------------------------------------------
(* SpecLima: VM lifecycle through limactl (LimaInstance, wrap_for_lima)    *)

VmNames == {"wm-a", "wm-b"}
\* status strings `limactl list --json` reports; "absent": no such VM
VmStatuses == {"Running", "Stopped", "Broken"}

\* `limactl list --json`, parsed (instance.rs:214-226)
limactl_list(vmState, ok) ==
    [ok |-> ok,
     instances |-> IF ok
                   THEN {[name |-> n, status |-> vmState[n]] :
                            n \in {m \in DOMAIN vmState : vmState[m] # "absent"}}
                   ELSE {}]

\* instance.rs:18-23
is_running(info) == info.status = "Running"

\* what limactl leaves behind: `start <name>` boots a VM that exists,
\* `start --name <name> <config>` creates and boots one that does not;
\* either fails otherwise, or when ok is FALSE
limactl_start(vmState, name, withConfig, ok) ==
    IF ok /\ (withConfig <=> vmState[name] = "absent")
    THEN [ok |-> TRUE, vms |-> [vmState EXCEPT ![name] = "Running"]]
    ELSE [ok |-> FALSE, vms |-> vmState]

\* get_or_create asking is_running only
get_or_create_recreating(name, vmState, writeOk, list1Ok, list2Ok, startOk) ==
    LET l1 == limactl_list(vmState, list1Ok)
        s  == limactl_start(vmState, name, TRUE, startOk)
    IN  IF ~writeOk \/ ~l1.ok THEN [ok |-> FALSE, ran |-> <<>>, vms |-> vmState]
        ELSE IF \E i \in l1.instances : i.name = name /\ i.status = "Running"
        THEN [ok |-> TRUE, ran |-> <<>>, vms |-> vmState]
        ELSE [ok |-> s.ok, ran |-> <<"start --name <name> <config>">>, vms |-> s.vms]

\* instance.rs:252-281.  writeOk: the config file was written; list1Ok,
\* list2Ok: the two `limactl list` calls succeeded; startOk: limactl start
\* did not fail for a reason of its own.
get_or_create(name, vmState, writeOk, list1Ok, list2Ok, startOk) ==
    LET l1 == limactl_list(vmState, list1Ok)
        l2 == limactl_list(vmState, list2Ok)
        s1 == limactl_start(vmState, name, FALSE, startOk)
        s2 == limactl_start(vmState, name, TRUE, startOk)
    IN  IF ~writeOk \/ ~l1.ok THEN [ok |-> FALSE, ran |-> <<>>, vms |-> vmState]
        ELSE IF \E i \in l1.instances : i.name = name /\ i.status = "Running"
        THEN [ok |-> TRUE, ran |-> <<>>, vms |-> vmState]
        ELSE IF l2.ok /\ \E i \in l2.instances : i.name = name
        THEN [ok |-> s1.ok, ran |-> <<"start <name>">>, vms |-> s1.vms]
        ELSE [ok |-> s2.ok, ran |-> <<"start --name <name> <config>">>, vms |-> s2.vms]

\* wrap.rs:123-131: "err" when the listing fails
check_vm_state(vm_name, listing) ==
    IF ~listing.ok THEN "err"
    ELSE IF \E i \in listing.instances : i.name = vm_name /\ is_running(i)
    THEN "Running"
    ELSE IF \E i \in listing.instances : i.name = vm_name
    THEN "Stopped"
    ELSE "NotFound"

\* wrap.rs:77-98: the limactl command put in front of `limactl shell`
start_prefix(vm_state) ==
    CASE vm_state = "Running"  -> <<>>
      [] vm_state = "Stopped"  -> <<"start <name>">>
      [] vm_state = "NotFound" -> <<"start --name <name> <config>">>

\* wrap_for_lima that looks for limactl only once it needs it
wrap_for_lima_probing_late(name, vmState, available, writeOk, listOk) ==
    IF ~writeOk
    THEN [ok |-> FALSE, ran |-> <<>>, did |-> <<"write config">>,
          error |-> <<"Failed", "to", "write", "Lima", "config">>]
    ELSE IF ~available
    THEN [ok |-> FALSE, ran |-> <<>>, did |-> <<"write config">>,
          error |-> <<"limactl", "is", "not", "installed">>]
    ELSE [ok |-> TRUE,
          ran |-> start_prefix(check_vm_state(name, limactl_list(vmState, TRUE))),
          did |-> <<"write config", "limactl list">>, error |-> <<>>]

\* wrap.rs:41-120.  available: limactl is installed; writeOk: the config
\* file was written.
\* `did` is what the call did outside itself, in order; `error` the text
\* of the error it returned.
wrap_for_lima(name, vmState, available, writeOk, listOk) ==
    LET st == check_vm_state(name, limactl_list(vmState, listOk))
    IN  IF ~available
        THEN [ok |-> FALSE, ran |-> <<>>, did |-> <<>>,
              error |-> <<"limactl", "is", "not", "installed">>]
        ELSE IF ~writeOk
        THEN [ok |-> FALSE, ran |-> <<>>, did |-> <<"write config">>,
              error |-> <<"Failed", "to", "write", "Lima", "config">>]
        ELSE IF st = "err"
        THEN [ok |-> FALSE, ran |-> <<>>, did |-> <<"write config", "limactl list">>,
              error |-> <<"Failed", "to", "execute", "limactl", "list">>]
        ELSE [ok |-> TRUE, ran |-> start_prefix(st),
              did |-> <<"write config", "limactl list">>, error |-> <<>>]

\* the container runtimes and the image of the sandbox configuration
Runtimes == {"podman", "docker"}
Images == {NoneId, SomeId("workmux-sandbox")}

\* container.rs:107-219: the words of the command line, or the error of a
\* configuration without an image
wrap_for_container(command, runtime, image) ==
    IF ~image.some
    THEN [ok |-> FALSE, args |-> <<>>,
          error |-> <<"Sandbox", "enabled", "but", "no", "image", "configured">>]
    ELSE [ok |-> TRUE, error |-> <<>>,
          args |-> <<runtime, "run", "--rm", "-it", image.val, "sh", "-c", command>>]

\* str::contains on texts held as sequences of words
Contains(text, phrase) ==
    \E i \in 0 .. (Len(text) - Len(phrase)) :
        \A k \in 1 .. Len(phrase) : text[i + k] = phrase[k]

\* `limactl stop <name>`: a running VM is stopped (or the stop fails for a
\* reason of its own); for a VM that is not running limactl fails and
\* says so on stderr; for a name it does not know it fails likewise
limactl_stop(vmState, name, stopOk) ==
    IF vmState[name] = "Running"
    THEN IF stopOk
         THEN [success |-> TRUE, stderr |-> <<>>,
               vms |-> [vmState EXCEPT ![name] = "Stopped"]]
         ELSE [success |-> FALSE, stderr |-> <<"timed", "out">>, vms |-> vmState]
    ELSE IF vmState[name] = "absent"
    THEN [success |-> FALSE, stderr |-> <<"instance", "does", "not", "exist">>,
          vms |-> vmState]
    ELSE [success |-> FALSE, stderr |-> <<"instance", "is", "not", "running">>,
          vms |-> vmState]

\* stop_by_name that passes every limactl failure on
stop_by_name_strict(name, vmState, spawnOk, stopOk) ==
    LET out == limactl_stop(vmState, name, stopOk)
    IN  IF ~spawnOk THEN [ok |-> FALSE, exit0 |-> FALSE, stderr |-> <<>>, vms |-> vmState]
        ELSE [ok |-> out.success, exit0 |-> out.success, stderr |-> out.stderr,
              vms |-> out.vms]

\* instance.rs:229-246.  spawnOk: limactl could be executed.
stop_by_name(name, vmState, spawnOk, stopOk) ==
    LET out == limactl_stop(vmState, name, stopOk)
    IN  IF ~spawnOk THEN [ok |-> FALSE, exit0 |-> FALSE, stderr |-> <<>>, vms |-> vmState]
        ELSE IF ~out.success
        THEN [ok |-> Contains(out.stderr, <<"not", "running">>), exit0 |-> FALSE,
              stderr |-> out.stderr, vms |-> out.vms]
        ELSE [ok |-> TRUE, exit0 |-> TRUE, stderr |-> out.stderr, vms |-> out.vms]

\* the call before this one, without its own history
Previous(out) ==
    IF out.op = "stop_by_name"
    THEN [op |-> out.op, name |-> out.name, ok |-> out.ok,
          exit0 |-> out.exit0, before |-> out.before]
    ELSE [op |-> out.op]

LimaFrame ==
    /\ UNCHANGED agentVars
    /\ UNCHANGED <<doneVars, procVars, tabVars, supVars>>
    /\ UNCHANGED moreVars
    /\ UNCHANGED lateVars

GetOrCreate ==
    \E name \in VmNames, writeOk \in BOOLEAN, list1Ok \in BOOLEAN,
       list2Ok \in BOOLEAN, startOk \in BOOLEAN :
        LET r == get_or_create(name, vms, writeOk, list1Ok, list2Ok, startOk)
        IN  /\ limaOut' = [op |-> "get_or_create", name |-> name, ok |-> r.ok,
                           ran |-> r.ran, before |-> vms[name],
                           after |-> r.vms[name],
                           listed |-> writeOk /\ list1Ok /\ list2Ok]
            /\ vms' = r.vms
            /\ LimaFrame

WrapForLima ==
    \E name \in VmNames, available \in BOOLEAN, writeOk \in BOOLEAN,
       listOk \in BOOLEAN :
        LET r == wrap_for_lima(name, vms, available, writeOk, listOk)
        IN  /\ limaOut' = [op |-> "wrap_for_lima", name |-> name, ok |-> r.ok,
                           ran |-> r.ran, before |-> vms[name],
                           after |-> vms[name],
                           listed |-> available /\ writeOk /\ listOk,
                           available |-> available, did |-> r.did,
                           error |-> r.error]
            /\ UNCHANGED vms
            /\ LimaFrame

WrapForContainer ==
    \E runtime \in Runtimes, image \in Images :
        LET r == wrap_for_container("claude", runtime, image)
        IN  /\ limaOut' = [op |-> "wrap_for_container", ok |-> r.ok,
                           image |-> image, args |-> r.args, error |-> r.error]
            /\ UNCHANGED vms
            /\ LimaFrame

StopByName ==
    \E name \in VmNames, spawnOk \in BOOLEAN, stopOk \in BOOLEAN :
        LET r == stop_by_name(name, vms, spawnOk, stopOk)
        IN  /\ limaOut' = [op |-> "stop_by_name", name |-> name, ok |-> r.ok,
                           exit0 |-> r.exit0, stderr |-> r.stderr,
                           executed |-> spawnOk,
                           before |-> vms[name], after |-> r.vms[name],
                           previous |-> Previous(limaOut)]
            /\ vms' = r.vms
            /\ LimaFrame

\* outside workmux: a VM is started, halts, breaks or is deleted
VmChanges ==
    \E name \in VmNames, status \in VmStatuses \cup {"absent"} :
        /\ vms[name] # status
        /\ vms' = [vms EXCEPT ![name] = status]
        /\ limaOut' = [op |-> "changed"]
        /\ LimaFrame

InitLima ==
    /\ agents = {}
    /\ panes = {}
    /\ now = 0
    /\ valOut = NoValidation
    /\ swResult = "none"
    /\ focusedTab = ""
    /\ DoneIdle
    /\ ProcIdle
    /\ TabIdle
    /\ SupIdle
    /\ MoreIdle
    /\ LateIdle
    /\ vms = [n \in VmNames |-> "absent"]
    /\ limaOut = NoLimaCall

NextLima ==
    \/ GetOrCreate
    \/ WrapForLima
    \/ WrapForContainer
    \/ StopByName
    \/ VmChanges

SpecLima == InitLima /\ [][NextLima]_vars

----------------------------------------------------------------------------
(* Claims about the VM lifecycle *)

\* C19: when get_or_create or wrap_for_lima got the listings it asked for,
\* it chose by the listed state of the VM with its name: Running, no start
\* command; any other status, `limactl start <name>` without a config;
\* not listed, `limactl start --name <name> <config>`.  When get_or_create
\* returns Ok the VM is running.
C19_EnsureChoosesByListedState ==
    /\ (limaOut.op \in {"get_or_create", "wrap_for_lima"} /\ limaOut.listed) =>
            limaOut.ran =
                (IF limaOut.before = "Running" THEN <<>>
                 ELSE IF limaOut.before = "absent"
                      THEN <<"start --name <name> <config>">>
                      ELSE <<"start <name>">>)
    /\ (limaOut.op = "get_or_create" /\ limaOut.ok) =>
            limaOut.after = "Running" /\ vms[limaOut.name] = "Running"

\* get_or_create found the VM listed as stopped, started it by name, and it
\* runs
C19_Witness ==
    /\ limaOut.op = "get_or_create" /\ limaOut.ok
    /\ limaOut.before = "Stopped"
    /\ limaOut.ran = <<"start <name>">>
    /\ vms[limaOut.name] = "Running"

\* C20: stop_by_name on a running VM, limactl stopping it, returns Ok; the
\* same call made again right after (limactl being executed again) returns
\* Ok as well, limactl having failed with "not running" on stderr, and the
\* VM stays stopped.
C20_StopByNameTwiceIsOk ==
    limaOut.op = "stop_by_name" =>
        /\ (limaOut.before = "Running" /\ limaOut.exit0) =>
                limaOut.ok /\ limaOut.after = "Stopped"
        /\ (/\ limaOut.previous.op = "stop_by_name"
            /\ limaOut.previous.name = limaOut.name
            /\ limaOut.previous.before = "Running"
            /\ limaOut.previous.ok
            /\ limaOut.executed) =>
                /\ limaOut.ok
                /\ ~limaOut.exit0
                /\ Contains(limaOut.stderr, <<"not", "running">>)
                /\ limaOut.after = "Stopped"

\* the second of two stop_by_name calls on a VM that was running
C20_Witness ==
    /\ limaOut.op = "stop_by_name" /\ limaOut.ok /\ ~limaOut.exit0
    /\ limaOut.previous.op = "stop_by_name"
    /\ limaOut.previous.name = limaOut.name
    /\ limaOut.previous.before = "Running"
    /\ limaOut.previous.ok /\ limaOut.previous.exit0

\* ---------------------------------------------------------------------
\* Host-exec shims (src/sandbox/lima/shims.rs).
\*
\* shimDir is the content of <state_dir>/shims/bin: a set of entries, at
\* most one per name.  A name is a sequence of one-character strings, so
\* that the validation and the temporary name are computed from the
\* characters as the code computes them.  An entry is a symbolic link
\* [name, kind |-> "symlink", target] or a regular file
\* [name, kind |-> "file", content, mode].
\* ---------------------------------------------------------------------

MaxCmds == 2
MaxRuns == 2
ShimProcs == {1, 2}

\* shim_bin.join("_shim") and what fs::write stores in it, chmod 0o755
DispatcherName == <<"_", "s", "h", "i", "m">>
DispatcherScript == "#!/bin/sh exec workmux host-exec"
NewFileMode == "0644"
DispatcherMode == "0755"

\* the entries "." and ".." every directory has
DotEntries == {<<".">>, <<".", ".">>}

\* host_commands names: two ordinary ones, the three kinds the validation
\* names (empty, with "/", with "\"), and names that are entries of the
\* directory already
CmdNames ==
    { <<"a">>, <<"b">>, <<>>, <<"/", "a">>, <<"a", "\\">>, <<".", ".">>,
      DispatcherName }

CmdLists == UNION {[1..n -> CmdNames] : n \in 0..MaxCmds}

\* cmd.contains(ch)
contains(cmd, ch) == \E k \in 1..Len(cmd) : cmd[k] = ch

\* the negation of the `continue` condition of the loop
valid(cmd) == ~(contains(cmd, "/") \/ contains(cmd, "\\") \/ cmd = <<>>)

\* format!(".{}.tmp", cmd)
tmp_name(cmd) == <<".">> \o cmd \o <<".", "t", "m", "p">>

entry(dir, name) == CHOOSE e \in dir : e.name = name
exists(dir, name) == \E e \in dir : e.name = name
is_symlink(dir, name) == exists(dir, name) /\ entry(dir, name).kind = "symlink"
is_file(dir, name) == exists(dir, name) /\ entry(dir, name).kind = "file"
without(dir, name) == {e \in dir : e.name # name}

\* the file a path names once symbolic links are followed; every link of
\* this directory points to "_shim", so a link at "_shim" is a loop
follow(dir, name) ==
    IF ~is_symlink(dir, name) THEN [ok |-> TRUE, name |-> name]
    ELSE IF is_symlink(dir, entry(dir, name).target) THEN [ok |-> FALSE, name |-> name]
    ELSE [ok |-> TRUE, name |-> entry(dir, name).target]

\* fs::write, first half: File::create opens the path with O_CREAT|O_TRUNC
file_create(dir, name) ==
    LET f == follow(dir, name) IN
    IF ~f.ok \/ f.name \in DotEntries THEN [ok |-> FALSE, dir |-> dir]
    ELSE [ok |-> TRUE,
          dir |-> without(dir, f.name) \cup
                    {[name |-> f.name, kind |-> "file", content |-> "",
                      mode |-> IF exists(dir, f.name)
                               THEN entry(dir, f.name).mode ELSE NewFileMode]}]

\* fs::write, second half: write_all on the open file (the file keeps
\* receiving the bytes even if its name was replaced in between)
write_all(dir, name, content) ==
    IF is_file(dir, name)
    THEN without(dir, name) \cup {[entry(dir, name) EXCEPT !.content = content]}
    ELSE dir

\* fs::set_permissions(path, mode)
set_permissions(dir, name, mode) ==
    LET f == follow(dir, name) IN
    IF ~f.ok \/ ~is_file(dir, f.name) THEN [ok |-> FALSE, dir |-> dir]
    ELSE [ok |-> TRUE,
          dir |-> without(dir, f.name) \cup {[entry(dir, f.name) EXCEPT !.mode = mode]}]

\* let _ = fs::remove_file(path)
remove_file(dir, name) == without(dir, name)

\* symlink(target, path): fails when the path exists
symlink(dir, target, name) ==
    IF exists(dir, name) \/ name \in DotEntries THEN [ok |-> FALSE, dir |-> dir]
    ELSE [ok |-> TRUE,
          dir |-> dir \cup {[name |-> name, kind |-> "symlink", target |-> target]}]

\* a rename that leaves the old name in place
rename_keeping_source(dir, from, to) ==
    IF ~exists(dir, from) \/ to \in DotEntries THEN [ok |-> FALSE, dir |-> dir]
    ELSE [ok |-> TRUE,
          dir |-> without(dir, to) \cup {[entry(dir, from) EXCEPT !.name = to]}]

\* fs::rename(from, to): fails when `from` is gone or `to` is a directory,
\* else replaces `to` in one step
rename(dir, from, to) ==
    IF ~exists(dir, from) \/ to \in DotEntries THEN [ok |-> FALSE, dir |-> dir]
    ELSE [ok |-> TRUE,
          dir |-> without(without(dir, to), from) \cup
                    {[entry(dir, from) EXCEPT !.name = to]}]

\* where a call is: the statement it runs next and the index of the
\* command the loop is at
ShimStart == [pc |-> "create_dir_all", i |-> 1]
ShimReturned(st) == st.pc \in {"Ok", "Err"}

\* the `continue` of the loop
skips(cmd) == ~valid(cmd)

\* the loop header: the next command that is not skipped, or the return
RECURSIVE next_command(_, _)
next_command(cmds, i) ==
    IF i > Len(cmds) THEN [pc |-> "Ok", i |-> i]
    ELSE IF skips(cmds[i]) THEN next_command(cmds, i + 1)
    ELSE [pc |-> "remove_file", i |-> i]

\* one statement of create_shim_directory, on the directory as it is
shim_step(dir, st, cmds) ==
    LET cmd == cmds[st.i]
        fail == [pc |-> "Err", i |-> st.i] IN
    CASE st.pc = "create_dir_all" ->
            [dir |-> dir, st |-> [st EXCEPT !.pc = "create"]]
      [] st.pc = "create" ->
            LET r == file_create(dir, DispatcherName) IN
            [dir |-> r.dir, st |-> IF r.ok THEN [st EXCEPT !.pc = "write_all"] ELSE fail]
      [] st.pc = "write_all" ->
            [dir |-> write_all(dir, DispatcherName, DispatcherScript),
             st |-> [st EXCEPT !.pc = "set_permissions"]]
      [] st.pc = "set_permissions" ->
            LET r == set_permissions(dir, DispatcherName, DispatcherMode) IN
            [dir |-> r.dir, st |-> IF r.ok THEN next_command(cmds, 1) ELSE fail]
      [] st.pc = "remove_file" ->
            [dir |-> remove_file(dir, tmp_name(cmd)),
             st |-> [st EXCEPT !.pc = "symlink"]]
      [] st.pc = "symlink" ->
            LET r == symlink(dir, DispatcherName, tmp_name(cmd)) IN
            [dir |-> r.dir, st |-> IF r.ok THEN [st EXCEPT !.pc = "rename"] ELSE fail]
      [] st.pc = "rename" ->
            LET r == rename(dir, tmp_name(cmd), cmd) IN
            [dir |-> r.dir, st |-> IF r.ok THEN next_command(cmds, st.i + 1) ELSE fail]

\* the statements of one call run with nothing in between
RECURSIVE shim_run(_, _, _)
shim_run(dir, st, cmds) ==
    IF ShimReturned(st) THEN [ok |-> st.pc = "Ok", dir |-> dir]
    ELSE LET n == shim_step(dir, st, cmds) IN shim_run(n.dir, n.st, cmds)

create_shim_directory(dir, cmds) == shim_run(dir, ShimStart, cmds)

\* no agent state file, no pane, nothing validated
AgentIdle ==
    /\ agents = {}
    /\ panes = {}
    /\ now = 0
    /\ valOut = NoValidation
    /\ swResult = "none"
    /\ focusedTab = ""

ShimFrame ==
    UNCHANGED <<agentVars, doneVars, procVars, tabVars, supVars, vmVars,
                stream, setup, esc, lateVars>>

\* one call of create_shim_directory on the directory the calls before
\* it left
CreateShimDirectory ==
    /\ shimProc = <<>>
    /\ Len(shimRun.results) < MaxRuns
    /\ LET r == create_shim_directory(shimDir, shimRun.cmds) IN
        /\ shimDir' = r.dir
        /\ shimRun' = [shimRun EXCEPT
                         !.results = Append(@, r.ok),
                         !.first = IF shimRun.results = <<>> THEN r.dir ELSE @]
    /\ UNCHANGED shimProc
    /\ ShimFrame

InitShims ==
    /\ AgentIdle /\ DoneIdle /\ ProcIdle /\ TabIdle /\ SupIdle /\ VmIdle
    /\ StreamIdle /\ SetupIdle /\ EscIdle
    /\ LateIdle
    /\ shimDir = {}
    /\ shimProc = <<>>
    /\ \E cmds \in CmdLists : shimRun = [cmds |-> cmds, results |-> <<>>, first |-> {}]

NextShims == CreateShimDirectory

SpecShims == InitShims /\ [][NextShims]_vars

\* two supervisors sharing one VM: both calls run on the same directory
\* with the same command list, one statement at a time
ShimStep(p) ==
    /\ shimProc # <<>>
    /\ ~ShimReturned(shimProc[p])
    /\ LET n == shim_step(shimDir, shimProc[p], shimRun.cmds) IN
        /\ shimDir' = n.dir
        /\ shimProc' = [shimProc EXCEPT ![p] = n.st]
    /\ UNCHANGED shimRun
    /\ ShimFrame

InitShimsConc ==
    /\ AgentIdle /\ DoneIdle /\ ProcIdle /\ TabIdle /\ SupIdle /\ VmIdle
    /\ StreamIdle /\ SetupIdle /\ EscIdle
    /\ LateIdle
    /\ shimDir = {}
    /\ shimProc = [p \in ShimProcs |-> ShimStart]
    /\ \E cmds \in CmdLists : shimRun = [cmds |-> cmds, results |-> <<>>, first |-> {}]

NextShimsConc == \E p \in ShimProcs : ShimStep(p)

SpecShimsConc == InitShimsConc /\ [][NextShimsConc]_vars

\* the dispatcher script as a reader finds it: all of its text, executable
DispatcherComplete(dir) ==
    /\ is_file(dir, DispatcherName)
    /\ entry(dir, DispatcherName).content = DispatcherScript
    /\ entry(dir, DispatcherName).mode = DispatcherMode

\* the shim of a command as a reader finds it: a link to the dispatcher
LinkComplete(dir, cmd) ==
    /\ is_symlink(dir, cmd)
    /\ entry(dir, cmd).target = DispatcherName
    /\ is_file(dir, DispatcherName)

\* names of the form .<cmd>.tmp
is_tmp(name) ==
    /\ Len(name) >= 5
    /\ name[1] = "."
    /\ SubSeq(name, Len(name) - 3, Len(name)) = <<".", "t", "m", "p">>

\* command lists whose valid names are none of the entries the directory
\* has for itself ("_shim", ".", "..")
OrdinaryList(cmds) ==
    \A k \in 1..Len(cmds) :
        valid(cmds[k]) => cmds[k] \notin DotEntries \cup {DispatcherName}

\* C21: two concurrent create_shim_directory calls on one state dir with
\* one command list (of ordinary names): both calls return Ok and every
\* valid name ends as a link to the dispatcher; and a dispatcher script or
\* a shim link that is complete is complete in every later state.
C21_ConcurrentCallsSucceedAndNothingIsSeenPartial ==
    /\ [](( /\ shimProc # <<>>
            /\ OrdinaryList(shimRun.cmds)
            /\ \A p \in ShimProcs : ShimReturned(shimProc[p]) ) =>
                /\ \A p \in ShimProcs : shimProc[p].pc = "Ok"
                /\ DispatcherComplete(shimDir)
                /\ \A k \in 1..Len(shimRun.cmds) :
                        valid(shimRun.cmds[k]) => LinkComplete(shimDir, shimRun.cmds[k]))
    /\ [][ (shimProc # <<>> /\ OrdinaryList(shimRun.cmds)) =>
                /\ DispatcherComplete(shimDir) => DispatcherComplete(shimDir')
                /\ \A k \in 1..Len(shimRun.cmds) :
                        LinkComplete(shimDir, shimRun.cmds[k]) =>
                            LinkComplete(shimDir', shimRun.cmds[k]) ]_vars

\* what C22 says of the state after the second of two calls
TwoRunsLeaveOneRun ==
    /\ shimRun.results = <<TRUE, TRUE>>
    /\ shimDir = shimRun.first
    /\ DispatcherComplete(shimDir)
    /\ \A e \in shimDir : ~is_tmp(e.name)

C23_ValidNamesLinkedInvalidSkipped ==
    shimRun.results # <<>> =>
        /\ \A r \in 1..Len(shimRun.results) : shimRun.results[r]
        /\ \A k \in 1..Len(shimRun.cmds) :
                valid(shimRun.cmds[k]) => LinkComplete(shimDir, shimRun.cmds[k])
        /\ \A e \in shimDir :
                \/ e.name = DispatcherName
                \/ \E k \in 1..Len(shimRun.cmds) :
                        valid(shimRun.cmds[k]) /\ e.name = shimRun.cmds[k]

\* ---------------------------------------------------------------------
\* stream_command (src/sandbox/lima/instance.rs): the main thread, the
\* child process and the two pump threads that copy the child's stdout
\* and stderr.
\* ---------------------------------------------------------------------

Pumps == {"stdout", "stderr"}

\* how a pump thread ends: Ok(()) at end of input, Err of a read or write,
\* or a panic
PumpEnds == {"Ok", "io_error", "panicked"}

\* ExitStatus of the child: an exit code, or none when a signal ended it
StreamStatuses == {SomeNum(0), SomeNum(1), SomeNum(2), NoneNum}

\* status.success()
success(status) == status.some /\ status.val = 0

\* handle.join().map_err(|_| anyhow!("<pump> thread panicked"))??
\* the error the two `?` return, or "none"
join_error(pump, end) ==
    CASE end = "Ok" -> "none"
      [] end = "io_error" -> "io error of the " \o pump \o " thread"
      [] end = "panicked" -> pump \o " thread panicked"

\* the statement after a join: the next one, or the return of the error
after_join(pump, end) ==
    IF join_error(pump, end) # "none" THEN "returned"
    ELSE IF pump = "stdout" THEN "join_stderr" ELSE "status"

StreamFrame ==
    UNCHANGED <<agentVars, doneVars, procVars, tabVars, supVars, vmVars,
                shimDir, shimProc, shimRun, setup, esc, lateVars>>

\* command.spawn()?, the two take()?, the two thread::spawn
SpawnCommand ==
    /\ stream.main = "idle"
    /\ \E spawnOk \in BOOLEAN :
        stream' =
            IF spawnOk
            THEN [main |-> "wait", child |-> "running", status |-> NoneNum,
                  pump |-> [p \in Pumps |-> "running"], joined |-> {},
                  result |-> "none"]
            ELSE [main |-> "returned", child |-> "none", status |-> NoneNum,
                  pump |-> [p \in Pumps |-> "none"], joined |-> {},
                  result |-> "Failed to spawn command"]
    /\ StreamFrame

\* the child ends
ChildExit ==
    /\ stream.main # "idle"
    /\ stream.child = "running"
    /\ \E status \in StreamStatuses :
        stream' = [stream EXCEPT !.child = "exited", !.status = status]
    /\ StreamFrame

\* a pump thread ends: at end of input, which comes once the child has
\* closed its end of the pipe, or before with an error or a panic
PumpEnd ==
    /\ stream.main # "idle"
    /\ \E p \in Pumps, end \in PumpEnds :
        /\ stream.pump[p] = "running"
        /\ end = "Ok" => stream.child = "exited"
        /\ stream' = [stream EXCEPT !.pump[p] = end]
    /\ StreamFrame

\* child.wait()?
Wait ==
    /\ stream.main = "wait"
    /\ stream.child = "exited"
    /\ \E waitOk \in BOOLEAN :
        stream' = IF waitOk
                  THEN [stream EXCEPT !.main = "join_stdout"]
                  ELSE [stream EXCEPT !.main = "returned",
                                      !.result = "Failed to wait for command"]
    /\ StreamFrame

\* stdout_handle.join()..?? and stderr_handle.join()..??
Join ==
    /\ \E p \in Pumps :
        /\ stream.main = "join_" \o p
        /\ stream.pump[p] # "running"
        /\ stream' = [stream EXCEPT
                        !.joined = @ \cup {p},
                        !.main = after_join(p, stream.pump[p]),
                        !.result = IF after_join(p, stream.pump[p]) = "returned"
                                   THEN join_error(p, stream.pump[p]) ELSE @]
    /\ StreamFrame

\* if !status.success() { bail!(..) }  Ok(())
CheckStatus ==
    /\ stream.main = "status"
    /\ stream' = [stream EXCEPT
                    !.main = "returned",
                    !.result = IF success(stream.status) THEN "Ok"
                               ELSE "Command failed with exit code"]
    /\ StreamFrame

InitStream ==
    /\ AgentIdle /\ DoneIdle /\ ProcIdle /\ TabIdle /\ SupIdle /\ VmIdle
    /\ ShimIdle /\ SetupIdle /\ EscIdle
    /\ LateIdle
    /\ stream = NoStream

NextStream == SpawnCommand \/ ChildExit \/ PumpEnd \/ Wait \/ Join \/ CheckStatus

SpecStream == InitStream /\ [][NextStream]_vars

\* C24: when stream_command returns with a child spawned and waited for,
\* the child has exited and both pump threads have been joined, whether it
\* returns Ok, the error of a non-zero exit, or the error of a pump that
\* failed or panicked; and it returns Ok only when the child exited with
\* code 0.
C24_ReturnsAfterChildExitAndBothJoins ==
    (stream.main = "returned" /\ stream.child # "none"
        /\ stream.result # "Failed to wait for command") =>
        /\ stream.child = "exited"
        /\ stream.joined = Pumps
        /\ stream.result = "Ok" => success(stream.status)

\* ---------------------------------------------------------------------
\* Pane setup.  The engine is the default implementation of the
\* Multiplexer trait and the handshake is UnixPipeHandshake; the zellij
\* backend supplies respawn_pane, split_pane, clear_pane and send_keys
\* (src/multiplexer/zellij.rs).  setup.log is the sequence of what has
\* reached the panes, in order.
\* ---------------------------------------------------------------------

MaxConfigs == 3

\* a pane config: whether it carries a command
PaneConfigs == [command : BOOLEAN]
ConfigLists == UNION {[1..n -> PaneConfigs] : n \in 1..MaxConfigs}

Event(ev, pane_id, text) == [ev |-> ev, pane |-> pane_id, text |-> text]

\* send_keys that types the command and does not press Enter
send_keys_without_enter(pane_id, command, charsOk, enterOk) ==
    IF ~charsOk THEN [ok |-> FALSE, error |-> "Failed to send keys", events |-> <<>>]
    ELSE [ok |-> TRUE, error |-> "",
          events |-> <<Event("write_chars", pane_id, command)>>]

\* zellij.rs:710-723.  charsOk / enterOk: `zellij action write-chars
\* --pane-id` / `zellij action write --pane-id .. 13` succeeded
send_keys(pane_id, command, charsOk, enterOk) ==
    IF ~charsOk THEN [ok |-> FALSE, error |-> "Failed to send keys", events |-> <<>>]
    ELSE IF ~enterOk
    THEN [ok |-> FALSE, error |-> "Failed to send Enter",
          events |-> <<Event("write_chars", pane_id, command)>>]
    ELSE [ok |-> TRUE, error |-> "",
          events |-> <<Event("write_chars", pane_id, command),
                       Event("enter", pane_id, "")>>]

\* zellij.rs:624-663.  There is no respawn in zellij: the command is typed
\* into the pane, which must be in the pane list.
respawn_pane(pane_id, cmd, listed, charsOk, enterOk) ==
    IF ~listed THEN [ok |-> FALSE, events |-> <<>>]
    ELSE IF ~charsOk THEN [ok |-> FALSE, events |-> <<>>]
    ELSE IF ~enterOk
    THEN [ok |-> FALSE, events |-> <<Event("write_chars", pane_id, cmd)>>]
    ELSE [ok |-> TRUE,
          events |-> <<Event("write_chars", pane_id, cmd),
                       Event("enter", pane_id, "")>>]

\* the pane of a config is spawned: the first config respawns the initial
\* pane, a later one splits; with a command, the pane runs the handshake
\* script
spawn_pane(idx, focus, withCommand, listed, cmdOk, charsOk, enterOk) ==
    LET script == IF withCommand THEN "handshake script" ELSE "" IN
    IF idx = 1
    THEN IF withCommand
         THEN LET r == respawn_pane(format_pane_id(1), script, listed, charsOk, enterOk)
              IN  [ok |-> r.ok, pane |-> 1, events |-> r.events]
         ELSE [ok |-> TRUE, pane |-> 1, events |-> <<>>]
    ELSE LET r == split_pane(format_pane_id(idx - 1), focus, cmdOk, idx) IN
         [ok |-> r.ok, pane |-> idx,
          events |-> IF r.ok THEN <<Event("new_pane", r.pane_id, script)>> ELSE <<>>]

SetupFrame ==
    UNCHANGED <<agentVars, doneVars, procVars, tabVars, supVars, vmVars,
                shimDir, shimProc, shimRun, stream, esc, lateVars>>

SetupFails(kind, events) ==
    setup' = [setup EXCEPT !.phase = "failed", !.result = kind,
                           !.log = @ \o events]

\* the engine is entered with the initial pane, which has the focus
StartSetup ==
    /\ setup.phase = "idle"
    /\ \E configs \in ConfigLists :
        setup' = [phase |-> "config", configs |-> configs, idx |-> 1,
                  focus |-> 1, log |-> <<>>, result |-> "none"]
    /\ SetupFrame

\* step 3, first half: create the handshake and spawn the pane with its
\* script; a config without a command gets its pane and nothing else
SpawnPane ==
    /\ setup.phase = "config"
    /\ setup.idx <= Len(setup.configs)
    /\ \E pipeOk \in BOOLEAN, listed \in BOOLEAN, cmdOk \in BOOLEAN,
          charsOk \in BOOLEAN, enterOk \in BOOLEAN :
        LET withCommand == setup.configs[setup.idx].command
            r == spawn_pane(setup.idx, setup.focus, withCommand,
                            listed, cmdOk, charsOk, enterOk)
        IN  IF withCommand /\ ~pipeOk THEN SetupFails("Handshake-io", <<>>)
            ELSE IF ~r.ok THEN SetupFails("spawn failed", r.events)
            ELSE setup' = [setup EXCEPT
                             !.log = @ \o r.events,
                             !.focus = r.pane,
                             !.phase = IF withCommand THEN "wait" ELSE "config",
                             !.idx = IF withCommand THEN @ ELSE @ + 1]
    /\ SetupFrame

\* one byte is read from the pipe, or the timeout passes
WaitHandshake ==
    /\ setup.phase = "wait"
    /\ \E arrived \in BOOLEAN :
        IF arrived
        THEN setup' = [setup EXCEPT
                         !.phase = "clear",
                         !.log = Append(@, Event("handshake_read",
                                                 format_pane_id(setup.idx), ""))]
        ELSE SetupFails("Handshake-timeout", <<>>)
    /\ SetupFrame

\* the handshake script is cleared from the pane
ClearSetupPane ==
    /\ setup.phase = "clear"
    /\ \E firstOk \in BOOLEAN, secondOk \in BOOLEAN :
        LET c == clear_pane(format_pane_id(setup.idx), setup.focus, firstOk, secondOk)
        IN  IF c.ok
            THEN setup' = [setup EXCEPT
                             !.phase = "send",
                             !.log = Append(@, Event("clear",
                                                     CHOOSE p \in c.cleared : TRUE, ""))]
            ELSE SetupFails("Failed to clear pane", <<>>)
    /\ SetupFrame

\* send_keys(final_command)
SendCommand ==
    /\ setup.phase = "send"
    /\ \E charsOk \in BOOLEAN, enterOk \in BOOLEAN :
        LET r == send_keys(format_pane_id(setup.idx), "command", charsOk, enterOk)
        IN  IF r.ok
            THEN setup' = [setup EXCEPT !.phase = "config", !.idx = @ + 1,
                                        !.log = @ \o r.events]
            ELSE SetupFails(r.error, r.events)
    /\ SetupFrame

\* after the last config
FinishSetup ==
    /\ setup.phase = "config"
    /\ setup.idx > Len(setup.configs)
    /\ setup' = [setup EXCEPT !.phase = "done", !.result = "Ok"]
    /\ SetupFrame

InitSetup ==
    /\ AgentIdle /\ DoneIdle /\ ProcIdle /\ TabIdle /\ SupIdle /\ VmIdle
    /\ ShimIdle /\ StreamIdle /\ EscIdle
    /\ LateIdle
    /\ setup = NoSetup

NextSetup ==
    StartSetup \/ SpawnPane \/ WaitHandshake \/ ClearSetupPane \/ SendCommand
        \/ FinishSetup

SpecSetup == InitSetup /\ [][NextSetup]_vars

\* positions of the log at which something of the given kind reached the pane
At(ev, pane_id, text) ==
    {k \in 1..Len(setup.log) : setup.log[k] = Event(ev, pane_id, text)}

\* positions at which the pane was spawned with the handshake script
SpawnedAt(pane_id) ==
    At("write_chars", pane_id, "handshake script")
        \cup At("new_pane", pane_id, "handshake script")

MaxWindows == 2

\* the lists filter_active_windows is given: any names, repeated or not
WindowLists == UNION {[1..n -> TabNames] : n \in 0..MaxWindows}

\* zellij.rs:326-358.  full_name is format!("{}{}", prefix, name); newTabOk:
\* `zellij action new-tab` made the tab; idOk: its output was a tab id and a
\* terminal pane was found in the tab.
create_window(name, tabSet, newTabOk, idOk) ==
    LET full_name == prefixed(name) IN
    [ok |-> newTabOk /\ idOk, full_name |-> full_name,
     tabs |-> IF newTabOk THEN tabSet \cup {full_name} ELSE tabSet]

\* zellij.rs:455-463
get_all_window_names(tabSet, inside, listOk) ==
    IF ~inside THEN [ok |-> TRUE, names |-> {}]
    ELSE IF ~listOk THEN [ok |-> FALSE, names |-> {}]
    ELSE [ok |-> TRUE, names |-> tabSet]

\* filter_active_windows that hands back its input
filter_active_windows_unfiltered(windows, tabSet, inside, listOk) ==
    [ok |-> get_all_window_names(tabSet, inside, listOk).ok, windows |-> windows]

\* zellij.rs:465-472
filter_active_windows(windows, tabSet, inside, listOk) ==
    LET active == get_all_window_names(tabSet, inside, listOk)
        keep(w) == w \in active.names
    IN  IF ~active.ok THEN [ok |-> FALSE, windows |-> <<>>]
        ELSE [ok |-> TRUE, windows |-> SelectSeq(windows, keep)]

CreateWindow ==
    \E name \in Handles, newTabOk \in BOOLEAN, idOk \in BOOLEAN :
        LET r == create_window(name, tabs, newTabOk, idOk)
        IN  /\ muxOut' = [op |-> "create_window", ok |-> r.ok, name |-> name,
                          target |-> r.full_name, before |-> tabs, after |-> r.tabs]
            /\ tabs' = r.tabs
            /\ focusedTab' = IF newTabOk THEN r.full_name ELSE focusedTab
            /\ UNCHANGED <<agents, panes, now, valOut, swResult>>
            /\ UNCHANGED <<paneFocus, pendingClose>>
            /\ UNCHANGED <<doneVars, procVars, supVars, vmVars>>
            /\ UNCHANGED moreVars
            /\ UNCHANGED lateVars

FilterActiveWindows ==
    \E windows \in WindowLists, inside \in BOOLEAN, listOk \in BOOLEAN :
        LET r == filter_active_windows(windows, tabs, inside, listOk)
        IN  /\ muxOut' = [op |-> "filter_active_windows", ok |-> r.ok,
                          windows |-> windows, inside |-> inside,
                          names |-> get_all_window_names(tabs, inside, listOk).names,
                          open |-> tabs, result |-> r.windows]
            /\ UNCHANGED agentVars
            /\ UNCHANGED <<tabs, paneFocus, pendingClose>>
            /\ UNCHANGED <<doneVars, procVars, supVars, vmVars>>
            /\ UNCHANGED moreVars
            /\ UNCHANGED lateVars

NextWindows ==
    CreateWindow \/ FilterActiveWindows \/ Close \/ DelayedCloseRuns
        \/ OpenTab \/ FocusTab

SpecWindows == InitTabs /\ [][NextWindows]_vars

\* the elements of a sequence
Elements(seq) == {seq[k] : k \in 1..Len(seq)}

C27_FilterActiveWindowsIsSubset ==
    (muxOut.op = "filter_active_windows" /\ muxOut.ok) =>
        /\ Elements(muxOut.result) \subseteq Elements(muxOut.windows)
        /\ Elements(muxOut.result) \subseteq muxOut.names
        /\ muxOut.names \subseteq muxOut.open
        /\ ~muxOut.inside => muxOut.result = <<>>

\* a list with an open and a closed window was filtered inside a session
C27_Witness ==
    /\ muxOut.op = "filter_active_windows" /\ muxOut.ok /\ muxOut.inside
    /\ Len(muxOut.windows) = 2
    /\ Len(muxOut.result) = 1
    /\ Cardinality(muxOut.open) >= 2

\* ---------------------------------------------------------------------
\* Best-effort steps: either the supervisor runs, or windows are made and
\* closed.
\* ---------------------------------------------------------------------

InitBestEffort == InitSupervisor

NextBestEffort ==
    \/ TabIdle /\ NextSupervisor
    \/ SupIdle /\ NextWindows

SpecBestEffort == InitBestEffort /\ [][NextBestEffort]_vars

\* positions of the supervisor's log at which seeding failed
SeedFailedAt ==
    {k \in 1..Len(supLog) : supLog[k].step = "seed_claude_json" /\ ~supLog[k].ok}

\* C28: a failure of seed_claude_json does not end the supervisor: its next
\* step is the bind of the RPC server, and with the bind succeeding the
\* acceptor is spawned and the agent command launched; and a `close` whose
\* stop of the containers failed has gone on to kill the window or to
\* schedule its close.
C28_BestEffortStepsDoNotAbort ==
    /\ \A k \in SeedFailedAt :
        /\ Len(supLog) = k => supPc = "bind"
        /\ Len(supLog) > k => supLog[k + 1].step = "bind"
        /\ (Len(supLog) > k /\ supLog[k + 1].ok) =>
                \/ supPc \in {"generate_token", "spawn", "launch"}
                \/ \E j \in k + 2 .. Len(supLog) : supLog[j].step = "launch"
    /\ (muxOut.op = "close" /\ muxOut.stop_failed) =>
        /\ Len(muxOut.events) = 2
        /\ muxOut.events[1] = "stop_containers_for_handle"
        /\ muxOut.events[2] \in {"kill_window", "schedule_window_close"}
        /\ muxOut.ok =>
            \/ muxOut.target \notin muxOut.after
            \/ \E c \in muxOut.spawned : c.tab = muxOut.target

\* the agent has run and ended after a failed seeding
C28_Witness ==
    /\ SeedFailedAt # {}
    /\ supPc = "exited"
    /\ \E j \in 1..Len(supLog) : supLog[j].step = "launch" /\ supLog[j].ok

\* C29: wrap_for_container for a configuration without an image returns an
\* error that says "no image" and no command line; wrap_for_lima with
\* limactl not installed returns an error and no command, having neither
\* written the VM config file nor listed the VMs.
C29_UnconfigurableSandboxIsAnError ==
    /\ (limaOut.op = "wrap_for_container" /\ ~limaOut.image.some) =>
            /\ ~limaOut.ok
            /\ limaOut.args = <<>>
            /\ Contains(limaOut.error, <<"no", "image">>)
    /\ (limaOut.op = "wrap_for_container" /\ limaOut.image.some) =>
            limaOut.ok /\ limaOut.args # <<>>
    /\ (limaOut.op = "wrap_for_lima" /\ ~limaOut.available) =>
            /\ ~limaOut.ok
            /\ limaOut.ran = <<>>
            /\ limaOut.did = <<>>
            /\ limaOut.error # <<>>

\* wrap_for_lima was called without limactl while a VM exists
C29_Witness ==
    /\ limaOut.op = "wrap_for_lima" /\ ~limaOut.available
    /\ limaOut.before = "Stopped"

\* ---------------------------------------------------------------------
\* Shell escaping (src/sandbox/lima/wrap.rs, src/sandbox/container.rs).
\* A text is a sequence of one-character strings.
\* ---------------------------------------------------------------------

MaxStrLen == 3

\* the single quote, the backslash, and characters that stand for the
\* rest: a letter, the space that ends an unquoted word, the double quote
EscChars == {"'", "\\", "a", " ", "\""}
EscStrings == UNION {[1..n -> EscChars] : n \in 0..MaxStrLen}

\* s.replace(from, to) for a one-character `from`
RECURSIVE replace(_, _, _)
replace(s, from, to) ==
    IF s = <<>> THEN <<>>
    ELSE (IF Head(s) = from THEN to ELSE <<Head(s)>>) \o replace(Tail(s), from, to)

\* an escape that puts a backslash before each single quote
shell_escape_backslash(s) == replace(s, "'", <<"\\", "'">>)

\* wrap.rs:10-12: s.replace('\'', "'\\''")
shell_escape(s) == replace(s, "'", <<"'", "\\", "'", "'">>)

\* wrap.rs:117: format!(" -- sh -c '{}'", shell_escape(&inner_script)),
\* the quoted word of it
lima_sh_c_word(inner_script) == <<"'">> \o shell_escape(inner_script) \o <<"'">>

\* container.rs:213-216: command.replace('\'', "'\\''") and format!("'{}'", ..)
container_sh_c_word(command) ==
    <<"'">> \o replace(command, "'", <<"'", "\\", "'", "'">>) \o <<"'">>

\* the first word of a text as a POSIX shell reads it (quote removal):
\* between single quotes every character is literal; between double
\* quotes a backslash escapes a double quote or a backslash; outside
\* quotes a backslash makes the next character literal and a space ends
\* the word.  closed: no quote was left open; rest: the text after the word.
RECURSIVE sh_word(_, _, _, _)
sh_word(text, i, mode, acc) ==
    IF i > Len(text)
    THEN [word |-> acc, closed |-> mode = "plain", rest |-> <<>>]
    ELSE LET c == text[i] IN
    CASE mode = "single" ->
            IF c = "'" THEN sh_word(text, i + 1, "plain", acc)
            ELSE sh_word(text, i + 1, "single", Append(acc, c))
      [] mode = "double" ->
            IF c = "\"" THEN sh_word(text, i + 1, "plain", acc)
            ELSE IF c = "\\" /\ i < Len(text) /\ text[i + 1] \in {"\\", "\""}
            THEN sh_word(text, i + 2, "double", Append(acc, text[i + 1]))
            ELSE sh_word(text, i + 1, "double", Append(acc, c))
      [] mode = "plain" ->
            IF c = "'" THEN sh_word(text, i + 1, "single", acc)
            ELSE IF c = "\"" THEN sh_word(text, i + 1, "double", acc)
            ELSE IF c = "\\"
            THEN IF i < Len(text)
                 THEN sh_word(text, i + 2, "plain", Append(acc, text[i + 1]))
                 ELSE [word |-> acc, closed |-> FALSE, rest |-> <<>>]
            ELSE IF c = " "
            THEN [word |-> acc, closed |-> TRUE, rest |-> SubSeq(text, i, Len(text))]
            ELSE sh_word(text, i + 1, "plain", Append(acc, c))

EscFrame ==
    UNCHANGED <<agentVars, doneVars, procVars, tabVars, supVars, vmVars,
                shimDir, shimProc, shimRun, stream, setup, lateVars>>

\* wrap_for_lima quotes its inner script for `sh -c`
EscapeForLima ==
    \E s \in EscStrings :
        /\ esc' = [done |-> TRUE, site |-> "lima", s |-> s,
                   word |-> lima_sh_c_word(s),
                   read |-> sh_word(lima_sh_c_word(s), 1, "plain", <<>>)]
        /\ EscFrame

\* wrap_for_container quotes the command for `sh -c`
EscapeForContainer ==
    \E s \in EscStrings :
        /\ esc' = [done |-> TRUE, site |-> "container", s |-> s,
                   word |-> container_sh_c_word(s),
                   read |-> sh_word(container_sh_c_word(s), 1, "plain", <<>>)]
        /\ EscFrame

InitEscape ==
    /\ AgentIdle /\ DoneIdle /\ ProcIdle /\ TabIdle /\ SupIdle /\ VmIdle
    /\ ShimIdle /\ StreamIdle /\ SetupIdle
    /\ LateIdle
    /\ esc = NoEscape

NextEscape == EscapeForLima \/ EscapeForContainer

SpecEscape == InitEscape /\ [][NextEscape]_vars

\* C30: for every string s, the text ' shell_escape(s) ' is read by the
\* shell as one word that is exactly s: every quote is closed and the word
\* ends where the text ends.
C30_ShellEscapeRoundTrips ==
    esc.done =>
        /\ esc.read.word = esc.s
        /\ esc.read.closed
        /\ esc.read.rest = <<>>

\* a string with a single quote, a space and a backslash was escaped
C30_Witness ==
    /\ esc.done
    /\ \E i, j, k \in 1..Len(esc.s) :
        esc.s[i] = "'" /\ esc.s[j] = " " /\ esc.s[k] = "\\"
    /\ esc.read.word = esc.s

\* ---------------------------------------------------------------------
\* parse_lima_instances (src/sandbox/lima/instance.rs): the output of
\* `limactl list --json`, one JSON object per line.  A text is a sequence
\* of symbols: single characters, and the words "name", "status", "dir",
\* "null", "Running", "Stopped" written as one symbol each.
\* ---------------------------------------------------------------------

MaxInstances == 2

NL == "\n"

\* names with the characters a JSON string has to escape
ParseNames == {<<>>, <<"n">>, <<"\"">>, <<"\\">>, <<NL>>}
ParseStatuses == {<<"Running">>, <<"Stopped">>}
ParseDirs == {NoneStr, SomeStr(<<"\\", NL>>)}

\* LimaInstanceInfo
LimaInstanceInfos == [name : ParseNames, status : ParseStatuses, dir : ParseDirs]
InstanceLists == UNION {[1..n -> LimaInstanceInfos] : n \in 0..MaxInstances}

\* a JSON string: quotes around the characters, with `"`, `\` and the
\* newline escaped
RECURSIVE json_escape(_)
json_escape(s) ==
    IF s = <<>> THEN <<>>
    ELSE (CASE Head(s) = "\"" -> <<"\\", "\"">>
            [] Head(s) = "\\" -> <<"\\", "\\">>
            [] Head(s) = NL   -> <<"\\", "n">>
            [] OTHER          -> <<Head(s)>>) \o json_escape(Tail(s))

json_string(s) == <<"\"">> \o json_escape(s) \o <<"\"">>

\* serde_json::to_string of a LimaInstanceInfo (derive(Serialize))
serialize_instance(info) ==
    <<"{">> \o json_string(<<"name">>) \o <<":">> \o json_string(info.name)
        \o <<",">> \o json_string(<<"status">>) \o <<":">> \o json_string(info.status)
        \o <<",">> \o json_string(<<"dir">>) \o <<":">>
        \o (IF info.dir.some THEN json_string(info.dir.val) ELSE <<"null">>)
        \o <<"}">>

\* one object per line
RECURSIVE serialize(_)
serialize(list) ==
    IF list = <<>> THEN <<>>
    ELSE serialize_instance(Head(list)) \o <<NL>> \o serialize(Tail(list))

\* str::lines
RECURSIVE lines(_, _)
lines(text, cur) ==
    IF text = <<>> THEN (IF cur = <<>> THEN <<>> ELSE <<cur>>)
    ELSE IF Head(text) = NL THEN <<cur>> \o lines(Tail(text), <<>>)
    ELSE lines(Tail(text), Append(cur, Head(text)))

\* l.trim().is_empty()
is_blank(line) == \A k \in 1..Len(line) : line[k] = " "

\* a JSON string read from position i: its characters and the position
\* after its closing quote
RECURSIVE read_string(_, _, _)
read_string(line, i, acc) ==
    IF i > Len(line) THEN [ok |-> FALSE, val |-> <<>>, next |-> i]
    ELSE IF line[i] = "\"" THEN [ok |-> TRUE, val |-> acc, next |-> i + 1]
    ELSE IF line[i] = "\\"
    THEN IF i = Len(line) THEN [ok |-> FALSE, val |-> <<>>, next |-> i]
         ELSE CASE line[i + 1] \in {"\"", "\\"} ->
                        read_string(line, i + 2, Append(acc, line[i + 1]))
                [] line[i + 1] = "n" -> read_string(line, i + 2, Append(acc, NL))
                [] OTHER -> [ok |-> FALSE, val |-> <<>>, next |-> i]
    ELSE read_string(line, i + 1, Append(acc, line[i]))

\* a string or null at position i
read_value(line, i) ==
    IF i > Len(line) THEN [ok |-> FALSE, val |-> NoneStr, next |-> i]
    ELSE IF line[i] = "null" THEN [ok |-> TRUE, val |-> NoneStr, next |-> i + 1]
    ELSE IF line[i] = "\""
    THEN LET r == read_string(line, i + 1, <<>>) IN
         [ok |-> r.ok, val |-> SomeStr(r.val), next |-> r.next]
    ELSE [ok |-> FALSE, val |-> NoneStr, next |-> i]

NoFields == [name |-> NoneStr, status |-> NoneStr, dir |-> NoneStr, seen |-> {}]
ParseError == [ok |-> FALSE, info |-> [name |-> <<>>, status |-> <<>>, dir |-> NoneStr]]

\* the members of an object from position i on: name and status must be
\* strings, dir a string or null or absent, other keys are passed over, a
\* key given twice is an error, and nothing may follow the closing brace
RECURSIVE read_members(_, _, _)
read_members(line, i, got) ==
    IF i > Len(line) \/ line[i] # "\"" THEN ParseError
    ELSE LET k == read_string(line, i + 1, <<>>) IN
    IF ~k.ok \/ k.next > Len(line) \/ line[k.next] # ":" THEN ParseError
    ELSE LET v == read_value(line, k.next + 1)
             key == k.val
             field == IF Len(key) = 1 THEN key[1] ELSE ""
             now_got ==
                CASE field = "name"   -> [got EXCEPT !.name = v.val, !.seen = @ \cup {field}]
                  [] field = "status" -> [got EXCEPT !.status = v.val, !.seen = @ \cup {field}]
                  [] field = "dir"    -> [got EXCEPT !.dir = v.val, !.seen = @ \cup {field}]
                  [] OTHER            -> got
         IN
    IF ~v.ok \/ field \in got.seen THEN ParseError
    ELSE IF field \in {"name", "status"} /\ ~v.val.some THEN ParseError
    ELSE IF v.next > Len(line) THEN ParseError
    ELSE IF line[v.next] = "," THEN read_members(line, v.next + 1, now_got)
    ELSE IF line[v.next] = "}" /\ v.next = Len(line)
            /\ now_got.name.some /\ now_got.status.some
    THEN [ok |-> TRUE,
          info |-> [name |-> now_got.name.val, status |-> now_got.status.val,
                    dir |-> now_got.dir]]
    ELSE ParseError

\* serde_json::from_str::<LimaInstanceInfo>(l)
from_str(line) ==
    IF line = <<>> \/ line[1] # "{" THEN ParseError ELSE read_members(line, 2, NoFields)

\* the rows that parse, the others left out
RECURSIVE parse_rows_dropping(_)
parse_rows_dropping(rows) ==
    IF rows = <<>> THEN [ok |-> TRUE, instances |-> <<>>]
    ELSE LET r == from_str(Head(rows))
             rest == parse_rows_dropping(Tail(rows))
         IN  [ok |-> TRUE,
              instances |-> (IF r.ok THEN <<r.info>> ELSE <<>>) \o rest.instances]

\* .map(from_str).collect::<Result<Vec<_>>>(): the rows in order, or the
\* first error
RECURSIVE parse_rows(_)
parse_rows(rows) ==
    IF rows = <<>> THEN [ok |-> TRUE, instances |-> <<>>]
    ELSE LET r == from_str(Head(rows)) IN
         IF ~r.ok THEN [ok |-> FALSE, instances |-> <<>>]
         ELSE LET rest == parse_rows(Tail(rows)) IN
              IF ~rest.ok THEN rest
              ELSE [ok |-> TRUE, instances |-> <<r.info>> \o rest.instances]

\* parse_lima_instances that leaves out a row it cannot parse
parse_lima_instances_dropping_rows(stdout) ==
    parse_rows_dropping(SelectSeq(lines(stdout, <<>>), LAMBDA l : ~is_blank(l)))

\* instance.rs:26-35
parse_lima_instances(stdout) ==
    parse_rows(SelectSeq(lines(stdout, <<>>), LAMBDA l : ~is_blank(l)))

\* the serialisation with blank lines before, between and after the rows
RECURSIVE with_blank_lines(_)
with_blank_lines(list) ==
    IF list = <<>> THEN <<" ", NL, NL>>
    ELSE <<NL, " ", " ", NL>> \o serialize_instance(Head(list)) \o <<NL>>
            \o with_blank_lines(Tail(list))

\* ways a row is not an object of the expected shape: cut short, without
\* its status, with a null name, not JSON at all
Damages == {"cut", "no status", "null name", "word"}
damaged(info, how) ==
    CASE how = "cut" -> SubSeq(serialize_instance(info), 1, Len(serialize_instance(info)) - 1)
      [] how = "no status" ->
            <<"{">> \o json_string(<<"name">>) \o <<":">> \o json_string(info.name) \o <<"}">>
      [] how = "null name" ->
            <<"{">> \o json_string(<<"name">>) \o <<":", "null", ",">>
                \o json_string(<<"status">>) \o <<":">> \o json_string(info.status) \o <<"}">>
      [] how = "word" -> <<"n">>

\* the serialisation of the list with row k damaged
RECURSIVE serialize_damaged(_, _, _)
serialize_damaged(list, k, how) ==
    IF list = <<>> THEN <<>>
    ELSE (IF k = 1 THEN damaged(Head(list), how) ELSE serialize_instance(Head(list)))
            \o <<NL>> \o serialize_damaged(Tail(list), k - 1, how)

ParseFrame ==
    UNCHANGED <<agentVars, doneVars, procVars, tabVars, supVars, vmVars, moreVars,
                poll, ensure, sbx>>

\* the listing of a list of instances is parsed
ParseListing ==
    /\ ~limaParse.done
    /\ \E list \in InstanceLists, blanks \in BOOLEAN :
        LET text == IF blanks THEN with_blank_lines(list) ELSE serialize(list) IN
        /\ limaParse' = [done |-> TRUE, kind |-> "listing", list |-> list,
                         blanks |-> blanks, result |-> parse_lima_instances(text)]
        /\ ParseFrame

\* a listing with one malformed row is parsed
ParseDamagedListing ==
    /\ ~limaParse.done
    /\ \E list \in InstanceLists \ {<<>>}, how \in Damages :
        \E k \in 1..Len(list) :
            /\ limaParse' = [done |-> TRUE, kind |-> how, list |-> list,
                             blanks |-> FALSE,
                             result |-> parse_lima_instances(serialize_damaged(list, k, how))]
            /\ ParseFrame

InitParse ==
    /\ AgentIdle /\ DoneIdle /\ ProcIdle /\ RestIdle

NextParse == ParseListing \/ ParseDamagedListing

SpecParse == InitParse /\ [][NextParse]_vars

\* C31: parse_lima_instances of the one-object-per-line serialisation of a
\* list returns the instances of the list in their order, with the same
\* name, status and dir, blank lines or not; of a text with a malformed row
\* it returns an error.
C31_ParseLimaInstancesRoundTrips ==
    limaParse.done =>
        IF limaParse.kind = "listing"
        THEN limaParse.result.ok /\ limaParse.result.instances = limaParse.list
        ELSE ~limaParse.result.ok

\* two instances whose names need escaping, with blank lines around them
C31_Witness ==
    /\ limaParse.done /\ limaParse.kind = "listing" /\ limaParse.blanks
    /\ Len(limaParse.list) = 2
    /\ limaParse.list[1].name = <<NL>> /\ limaParse.list[2].name = <<"\"">>
    /\ limaParse.list[1].dir.some /\ ~limaParse.list[2].dir.some
    /\ limaParse.result.instances = limaParse.list

----------------------------------------------------------------------------
(* Claims about the status calls of the zellij backend (SpecDone)          *)

\* C32: in a set-window-status command run from a pane, ensure_status_format,
\* set_status and clear_status return Ok (the command returns Ok) and the
\* panes, the tabs, the focus and the scheduled closes stay as they were: the
\* command changes the done stack only.
C32_StatusCallsAreNoOps ==
    [][\A n \in DonePaneNumbers, cmd \in StatusCommands :
            SetWindowStatus(cmd, SomeNum(n)) =>
                /\ lastStatus'[format_pane_id(n)] = cmd
                /\ panes' = panes
                /\ UNCHANGED <<tabs, paneFocus, pendingClose, focusedTab>>]_vars

\* `done` came from panes 2 and 1 and `clear` from pane 3, and the three
\* panes are the panes of the start
C32_Witness ==
    /\ doneStack = <<"terminal_1", "terminal_2">>
    /\ lastStatus["terminal_3"] = "clear"
    /\ panes = {TermPane(n, SomeStr(<<"c">>), NoneStr) : n \in DonePaneNumbers}

----------------------------------------------------------------------------
(* More claims about `close` (checked under SpecTabs)                      *)

\* C33: a `close` whose target window is not open, or whose named worktree
\* does not exist (no target), returns an error, has made none of its calls
\* (no container stop, no kill_window, no schedule_window_close) and leaves
\* the tabs, the scheduled closes and the focus as they were.
C33_CloseOfMissingTargetChangesNothing ==
    [][(Close /\ muxOut'.target \notin tabs) =>
            /\ ~muxOut'.ok
            /\ muxOut'.events = <<>>
            /\ muxOut'.spawned = {}
            /\ UNCHANGED <<tabs, pendingClose, focusedTab>>]_vars

\* `close a` failed in a session that has tabs, wm:b among them, and no tab
\* wm:a
C33_Witness ==
    /\ muxOut.op = "close" /\ ~muxOut.ok
    /\ muxOut.target = "wm:a"
    /\ muxOut.events = <<>>
    /\ "wm:b" \in tabs /\ "wm:a" \notin tabs
    /\ muxOut.focus \in tabs

C35_ScheduledCloseWaitsTheDelay ==
    \A c \in pendingClose : c.sleep * 1000 >= CloseDelayMs

----------------------------------------------------------------------------
(* select_pane of the zellij backend (zellij.rs:501-566): zellij has no     *)
(* focus-pane-by-id, so the focus is walked with focus-next-pane and        *)
(* focus-previous-pane                                                      *)

\* the panes `list-panes` can show: terminal panes 1, 2, 3 of the tab main,
\* terminal pane 3 in another tab, and a plugin pane with the number 2
ListedPane(n, plugin, tab) == [id |-> n, is_plugin |-> plugin, tab_name |-> tab]
ListedPanes ==
    {ListedPane(1, FALSE, "main"), ListedPane(2, FALSE, "main"),
     ListedPane(3, FALSE, "main"), ListedPane(3, FALSE, "wm:a"),
     ListedPane(2, TRUE, "main")}

\* most panes in a listing
MaxListed == 3

\* the listings: the panes in some order, no pane twice, no terminal id twice
PaneListings ==
    {l \in UNION {[1..n -> ListedPanes] : n \in 1..MaxListed} :
        \A i, j \in 1..Len(l) :
            (i # j) => (l[i] # l[j] /\ (l[i].id = l[j].id => l[i].is_plugin # l[j].is_plugin))}

\* the pane ids select_pane is called with
SelectTargets == {"terminal_1", "terminal_2", "terminal_3", "plugin_2"}

\* the orders in which a set of panes can be walked
Orders(S) == {o \in [1..Cardinality(S) -> S] : \A i, j \in 1..Cardinality(S) : o[i] = o[j] => i = j}

\* Iterator::position: the index of the first element that passes, 0 for None
position(s, Test(_)) ==
    IF \E i \in 1..Len(s) : Test(s[i])
    THEN CHOOSE i \in 1..Len(s) : Test(s[i]) /\ \A j \in 1..(i - 1) : ~Test(s[j])
    ELSE 0

SelectFailed(text) == [ok |-> FALSE, error |-> text, moves |-> <<>>, moved |-> 0]

\* the focus commands select_pane runs: `steps` of them, each with `?`;
\* okMoves of them succeed before one fails
focus_moves(cmd, steps, okMoves) ==
    IF okMoves >= steps
    THEN [ok |-> TRUE, error |-> "", moves |-> [i \in 1..steps |-> cmd], moved |-> steps]
    ELSE [ok |-> FALSE,
          error |-> IF cmd = "focus-previous-pane"
                    THEN "Failed to navigate to previous pane"
                    ELSE "Failed to navigate to next pane",
          moves |-> [i \in 1..(okMoves + 1) |-> cmd], moved |-> okMoves]

\* select_pane that walks forward whatever the target
select_pane_forward_only(pane_id, focused_tab, listed, okMoves) ==
    LET target_id == parse_pane_id(pane_id) IN
    IF ~target_id.some THEN SelectFailed("Invalid pane_id")
    ELSE IF ~focused_tab.some THEN SelectFailed("Could not determine focused tab")
    ELSE IF ~listed.ok THEN SelectFailed("Failed to list panes")
    ELSE LET tab_panes == SelectSeq(listed.panes,
                            LAMBDA p : ~p.is_plugin /\ p.tab_name = focused_tab.val)
             current_idx == position(tab_panes, LAMBDA p : p.is_focused)
             target_idx == position(tab_panes, LAMBDA p : p.id = target_id.val)
         IN  IF current_idx = 0 THEN SelectFailed("No focused pane found in current tab")
             ELSE IF target_idx = 0 THEN SelectFailed("Target pane not found in current tab")
             ELSE IF current_idx = target_idx
             THEN [ok |-> TRUE, error |-> "", moves |-> <<>>, moved |-> 0]
             ELSE focus_moves("focus-next-pane",
                              IF target_idx < current_idx THEN current_idx - target_idx
                              ELSE target_idx - current_idx, okMoves)

\* zellij.rs:501-566.  focused_tab: what focused_tab_name gave; listed:
\* [ok, panes], the answer of list_panes, each pane with its is_focused.
select_pane(pane_id, focused_tab, listed, okMoves) ==
    LET target_id == parse_pane_id(pane_id) IN
    IF ~target_id.some THEN SelectFailed("Invalid pane_id")
    ELSE IF ~focused_tab.some THEN SelectFailed("Could not determine focused tab")
    ELSE IF ~listed.ok THEN SelectFailed("Failed to list panes")
    ELSE LET tab_panes == SelectSeq(listed.panes,
                            LAMBDA p : ~p.is_plugin /\ p.tab_name = focused_tab.val)
             current_idx == position(tab_panes, LAMBDA p : p.is_focused)
             target_idx == position(tab_panes, LAMBDA p : p.id = target_id.val)
         IN  IF current_idx = 0 THEN SelectFailed("No focused pane found in current tab")
             ELSE IF target_idx = 0 THEN SelectFailed("Target pane not found in current tab")
             ELSE IF current_idx = target_idx
             THEN [ok |-> TRUE, error |-> "", moves |-> <<>>, moved |-> 0]
             ELSE IF target_idx < current_idx
             THEN focus_moves("focus-previous-pane", current_idx - target_idx, okMoves)
             ELSE focus_moves("focus-next-pane", target_idx - current_idx, okMoves)

\* zellij: the pane `n` focus moves after (dir = 1) or before (dir = -1)
\* pane `from` in the order zellij walks the panes of a tab, going round
FocusAfter(order, from, dir, n) ==
    LET at == position(order, LAMBDA p : p = from)
        k == Len(order)
    IN  order[((at - 1 + dir * n + k * n) % k) + 1]

\* select_pane is called in the tab main: the listing, the pane of main
\* that has the focus, the order in which zellij walks the panes of main,
\* the target, what the two queries answer and how many focus commands work
SelectPane ==
    /\ muxOut.op = "none"
    /\ \E l \in PaneListings, pane_id \in SelectTargets,
       probe \in {"ok", "no tab", "no list"}, okMoves \in 0..(MaxListed - 1) :
        LET inMain == {l[i] : i \in {j \in 1..Len(l) : l[j].tab_name = "main"}} IN
        \E focus \in inMain, order \in Orders(inMain) :
            LET panesListed == [i \in 1..Len(l) |->
                                    [id |-> l[i].id, is_plugin |-> l[i].is_plugin,
                                     tab_name |-> l[i].tab_name,
                                     is_focused |-> (l[i].tab_name # "main" \/ l[i] = focus)]]
                r == select_pane(pane_id,
                                 IF probe = "no tab" THEN NoneId ELSE SomeId("main"),
                                 [ok |-> probe # "no list", panes |-> panesListed],
                                 okMoves)
                terminals == SelectSeq(l, LAMBDA p : ~p.is_plugin /\ p.tab_name = "main")
                dir == IF r.moves # <<>> /\ r.moves[1] = "focus-previous-pane" THEN -1 ELSE 1
            IN  /\ muxOut' = [op |-> "select_pane", ok |-> r.ok, error |-> r.error,
                              target |-> pane_id, probe |-> probe,
                              terminals |-> terminals,
                              before |-> focus,
                              after |-> FocusAfter(order, focus, dir, r.moved),
                              moves |-> r.moves,
                              failed |-> (Len(r.moves) > r.moved),
                              aligned |-> (order = terminals)]
                /\ UNCHANGED agentVars
                /\ UNCHANGED <<tabs, paneFocus, pendingClose>>
                /\ UNCHANGED <<doneVars, procVars, supVars, vmVars>>
                /\ UNCHANGED moreVars
                /\ UNCHANGED lateVars

NextSelect == SelectPane

SpecSelect == InitTabs /\ [][NextSelect]_vars

\* the target is a terminal pane of the focused tab, the focus is on a
\* terminal pane of it, and both queries answered
SelectCase ==
    /\ muxOut.op = "select_pane" /\ muxOut.probe = "ok"
    /\ parse_pane_id(muxOut.target).some
    /\ \E i \in 1..Len(muxOut.terminals) :
            muxOut.terminals[i].id = parse_pane_id(muxOut.target).val
    /\ muxOut.before \in Range(muxOut.terminals)

TargetIndex == position(muxOut.terminals, LAMBDA p : p.id = parse_pane_id(muxOut.target).val)
FocusedIndex == position(muxOut.terminals, LAMBDA p : p = muxOut.before)
Distance ==
    IF TargetIndex < FocusedIndex THEN FocusedIndex - TargetIndex
    ELSE TargetIndex - FocusedIndex

\* the moves are |index(P) - index(focused)| moves in P's direction
RightMoves ==
    /\ Len(muxOut.moves) = Distance
    /\ \A i \in 1..Len(muxOut.moves) :
            muxOut.moves[i] = IF TargetIndex < FocusedIndex
                              THEN "focus-previous-pane" ELSE "focus-next-pane"

\* a target that is malformed or no terminal pane of the focused tab: the
\* call fails and has issued no move
BadTargetFails ==
    (muxOut.op = "select_pane" /\ muxOut.probe = "ok"
        /\ (~parse_pane_id(muxOut.target).some
            \/ \A i \in 1..Len(muxOut.terminals) :
                    muxOut.terminals[i].id # parse_pane_id(muxOut.target).val)) =>
        /\ ~muxOut.ok /\ muxOut.moves = <<>> /\ muxOut.after = muxOut.before

----------------------------------------------------------------------------
(* wait_until_windows_closed of the zellij backend (zellij.rs:487-497): a  *)
(* poll loop over the open tabs                                            *)

\* one pass of the loop with any() in the place of all()
wait_check_any_closed(full_window_names, active) ==
    IF ~active.ok THEN "err"
    ELSE IF full_window_names = {} \/ \E w \in full_window_names : w \notin active.names
    THEN "ok"
    ELSE "sleep"

\* zellij.rs:491-495: one pass of the loop.  "err": get_all_window_names
\* failed and `?` returns the error; "ok": no named window is active,
\* return Ok(()); "sleep": sleep 100 ms and go round.
wait_check(full_window_names, active) ==
    IF ~active.ok THEN "err"
    ELSE IF \A w \in full_window_names : w \notin active.names THEN "ok"
    ELSE "sleep"

\* wait_until_windows_closed is called, inside a session or outside one
StartWait ==
    \E names \in SUBSET {prefixed(h) : h \in Handles}, inside \in BOOLEAN :
        /\ poll = NoPoll
        /\ poll' = [pc |-> "check", names |-> names, inside |-> inside,
                    again |-> FALSE, ok |-> FALSE]
        /\ UNCHANGED <<agentVars, doneVars, procVars, tabVars, supVars, vmVars, moreVars>>
        /\ UNCHANGED <<limaParse, ensure, sbx>>

\* the loop lists the tabs and returns or goes to sleep
WaitCheck ==
    \E listOk \in BOOLEAN :
        LET r == wait_check(poll.names, get_all_window_names(tabs, poll.inside, listOk)) IN
        /\ poll.pc = "check"
        /\ poll' = IF r = "sleep" THEN [poll EXCEPT !.pc = "sleep"]
                   ELSE [poll EXCEPT !.pc = "returned", !.ok = (r = "ok")]
        /\ UNCHANGED <<agentVars, doneVars, procVars, tabVars, supVars, vmVars, moreVars>>
        /\ UNCHANGED <<limaParse, ensure, sbx>>

\* thread::sleep(100 ms) is over
WaitSleep ==
    /\ poll.pc = "sleep"
    /\ poll' = [poll EXCEPT !.pc = "check", !.again = TRUE]
    /\ UNCHANGED <<agentVars, doneVars, procVars, tabVars, supVars, vmVars, moreVars>>
    /\ UNCHANGED <<limaParse, ensure, sbx>>

NextWait ==
    \/ StartWait
    \/ WaitCheck
    \/ WaitSleep
    \/ OpenTab
    \/ KillWindow
    \/ FocusTab

\* the thread that runs the loop keeps running: a pass that can be made is
\* made, and a sleep ends
SpecWait ==
    InitTabs /\ [][NextWait]_vars /\ WF_vars(WaitCheck) /\ WF_vars(WaitSleep)

Waiting == poll.pc \in {"check", "sleep"}
NamedClosed == poll.pc # "idle" /\ poll.names \cap tabs = {}

----------------------------------------------------------------------------
(* Two panes of one isolation scope bring up the same VM: wrap_for_lima    *)
(* reads the VM's state (wrap.rs:74), and the pane later runs the start    *)
(* command chosen from that reading (wrap.rs:77-98)                        *)

EnsurePanes == {1, 2}

\* wrap_for_lima is called for two panes that share the VM `name`
StartEnsure ==
    \E name \in VmNames :
        /\ ensure = <<>>
        /\ ensure' = [p \in EnsurePanes |->
                        [pc |-> "read", name |-> name, vm_state |-> "", ok |-> FALSE]]
        /\ UNCHANGED <<agentVars, doneVars, procVars, tabVars, supVars, vmVars, moreVars>>
        /\ UNCHANGED <<limaParse, poll, sbx>>

\* wrap.rs:74: check_vm_state of pane p's wrap_for_lima
EnsureRead(p) ==
    /\ ensure # <<>> /\ ensure[p].pc = "read"
    /\ ensure' = [ensure EXCEPT ![p].pc = "issue",
                                ![p].vm_state =
                                    check_vm_state(ensure[p].name, limactl_list(vms, TRUE))]
    /\ UNCHANGED <<agentVars, doneVars, procVars, tabVars, supVars, vmVars, moreVars>>
    /\ UNCHANGED <<limaParse, poll, sbx>>

\* wrap.rs:77-98: pane p runs the start command of its wrapped command
\* line, and `limactl shell` after it when it succeeded
EnsureIssue(p) ==
    /\ ensure # <<>> /\ ensure[p].pc = "issue"
    /\ LET ran == start_prefix(ensure[p].vm_state)
           s == limactl_start(vms, ensure[p].name,
                              ran = <<"start --name <name> <config>">>, TRUE)
       IN  IF ran = <<>>
           THEN /\ ensure' = [ensure EXCEPT ![p].pc = "done", ![p].ok = TRUE]
                /\ UNCHANGED vms
           ELSE /\ ensure' = [ensure EXCEPT ![p].pc = "done", ![p].ok = s.ok]
                /\ vms' = s.vms
    /\ UNCHANGED limaOut
    /\ UNCHANGED <<agentVars, doneVars, procVars, tabVars, supVars, moreVars>>
    /\ UNCHANGED <<limaParse, poll, sbx>>

\* the VMs are in any state before the panes start; from then on only the
\* two panes act on them
NextEnsure ==
    \/ (ensure = <<>> /\ VmChanges)
    \/ StartEnsure
    \/ \E p \in EnsurePanes : EnsureRead(p)
    \/ \E p \in EnsurePanes : EnsureIssue(p)

SpecEnsure == InitLima /\ [][NextEnsure]_vars

\* C38: when both panes have run their start command, the VM is running
\* and neither pane's command has failed.
C38_BothPanesEndWithTheVmRunning ==
    (ensure # <<>> /\ \A p \in EnsurePanes : ensure[p].pc = "done") =>
        /\ \A p \in EnsurePanes : ensure[p].ok
        /\ vms[ensure[1].name] = "Running"

----------------------------------------------------------------------------
(* One more claim about the shim directory (checked under SpecShims)       *)

\* C39: after a call of create_shim_directory, whatever the command list,
\* the dispatcher `_shim` is the executable script, and every link in the
\* directory is a link to it.
C39_DispatcherStaysAndLinksResolve ==
    shimRun.results # <<>> =>
        /\ DispatcherComplete(shimDir)
        /\ \A e \in shimDir : is_symlink(shimDir, e.name) => LinkComplete(shimDir, e.name)

----------------------------------------------------------------------------
(* `workmux sandbox stop` and `workmux sandbox prune`                      *)
(* (src/command/sandbox.rs)                                                *)

\* the prefix of the names of the VMs workmux makes
VM_PREFIX == <<"w", "m", "-">>

\* the VMs limactl can know: two of workmux and one whose name holds the
\* prefix without beginning with it
SbxNames == {<<"w", "m", "-", "a">>, <<"w", "m", "-", "b">>, <<"x", "w", "m", "-">>}
SbxOrder == <<<<"w", "m", "-", "a">>, <<"x", "w", "m", "-">>, <<"w", "m", "-", "b">>>>
SbxListings == [SbxNames -> {"Running", "Stopped", "absent"}]

\* what the user types at a prompt
Answers == {<<"y">>, <<" ", "Y", "E", "S", "\n">>, <<"y", "e", "s">>, <<"n", "\n">>, <<"\n">>}
Selections == {<<"A", "l", "l", "\n">>, <<"1", "\n">>, <<"2">>, <<"x">>}

\* str::starts_with
starts_with(s, prefix) ==
    Len(s) >= Len(prefix) /\ SubSeq(s, 1, Len(prefix)) = prefix

\* str::trim
RECURSIVE trim(_)
trim(s) ==
    IF s = <<>> THEN s
    ELSE IF Head(s) \in {" ", "\n"} THEN trim(Tail(s))
    ELSE IF s[Len(s)] \in {" ", "\n"} THEN trim(SubSeq(s, 1, Len(s) - 1))
    ELSE s

\* str::to_ascii_lowercase
to_ascii_lowercase(s) ==
    [i \in 1..Len(s) |->
        CASE s[i] = "Y" -> "y" [] s[i] = "E" -> "e" [] s[i] = "S" -> "s"
          [] s[i] = "A" -> "a" [] s[i] = "L" -> "l" [] OTHER -> s[i]]

\* the instances of a listing, in limactl's order
instances_of(listing) ==
    LET present == SelectSeq(SbxOrder, LAMBDA n : listing[n] # "absent") IN
    [i \in 1..Len(present) |-> [name |-> present[i], status |-> listing[present[i]]]]

SbxResult(ok, infos) == [ok |-> ok, acted |-> [i \in 1..Len(infos) |-> infos[i].name]]

\* sandbox.rs:493-527: the VMs picked at the prompt, by number or `all`
select_vms_interactive(running, input) ==
    LET text == trim(input)
        idx == CASE text = <<"1">> -> SomeNum(1)
                 [] text = <<"2">> -> SomeNum(2)
                 [] text = <<"3">> -> SomeNum(3)
                 [] text = <<"0">> -> SomeNum(0)
                 [] OTHER -> NoneNum
    IN  IF to_ascii_lowercase(text) = <<"a", "l", "l">> THEN [ok |-> TRUE, vms |-> running]
        ELSE IF ~idx.some THEN [ok |-> FALSE, vms |-> <<>>]
        ELSE IF idx.val < 1 \/ idx.val > Len(running) THEN [ok |-> FALSE, vms |-> <<>>]
        ELSE [ok |-> TRUE, vms |-> <<running[idx.val]>>]

\* run_stop that takes the VMs of every name
run_stop_any_vm(name, all, skip_confirm, listing, env, selection, answer) ==
    LET workmux_vms == instances_of(listing)
        running_vms == SelectSeq(workmux_vms, is_running)
        picked == select_vms_interactive(running_vms, selection)
    IN  IF env \in {"no limactl", "list failed"} THEN SbxResult(FALSE, <<>>)
        ELSE IF all THEN SbxResult(env # "command failed", running_vms)
        ELSE IF name.some
        THEN SbxResult(env # "command failed",
                       SelectSeq(running_vms, LAMBDA v : v.name = name.val))
        ELSE IF env = "no tty" \/ ~picked.ok THEN SbxResult(FALSE, <<>>)
        ELSE SbxResult(env # "command failed", picked.vms)

\* sandbox.rs:368-491.  env: what fails around the command ("no limactl",
\* "list failed", "no tty", "command failed": a limactl stop that fails).
\* The result is Ok or not, and the names stop_by_name was called with.
run_stop(name, all, skip_confirm, listing, env, selection, answer) ==
    LET all_vms == instances_of(listing)
        workmux_vms == SelectSeq(all_vms, LAMBDA vm : starts_with(vm.name, VM_PREFIX))
        running_vms == SelectSeq(workmux_vms, is_running)
        named == SelectSeq(workmux_vms, LAMBDA v : name.some /\ v.name = name.val)
        picked == select_vms_interactive(running_vms, selection)
        found ==
            IF all THEN [ok |-> TRUE, vms |-> running_vms]
            ELSE IF name.some
            THEN IF named = <<>> THEN [ok |-> FALSE, vms |-> <<>>]
                 ELSE IF is_running(named[1]) THEN [ok |-> TRUE, vms |-> <<named[1]>>]
                 ELSE [ok |-> TRUE, vms |-> <<>>]
            ELSE IF env = "no tty" THEN [ok |-> FALSE, vms |-> <<>>]
            ELSE IF running_vms = <<>> THEN [ok |-> TRUE, vms |-> <<>>]
            ELSE picked
        yes == to_ascii_lowercase(trim(answer)) \in {<<"y">>, <<"y", "e", "s">>}
    IN  IF env \in {"no limactl", "list failed"} THEN SbxResult(FALSE, <<>>)
        ELSE IF ~found.ok THEN SbxResult(FALSE, <<>>)
        ELSE IF found.vms = <<>> THEN SbxResult(TRUE, <<>>)
        ELSE IF ~skip_confirm /\ ~yes THEN SbxResult(TRUE, <<>>)
        ELSE SbxResult(env # "command failed", found.vms)

\* sandbox.rs:125-275.  The result is Ok or not, and the names
\* `limactl delete --force` was run with.
run_prune(force, listing, env, answer) ==
    LET instances == instances_of(listing)
        vm_infos == SelectSeq(instances, LAMBDA i : starts_with(i.name, <<"w", "m", "-">>))
        yes == to_ascii_lowercase(trim(answer)) = <<"y">>
    IN  IF env \in {"no limactl", "list failed"} THEN SbxResult(FALSE, <<>>)
        ELSE IF vm_infos = <<>> THEN SbxResult(TRUE, <<>>)
        ELSE IF ~force /\ ~yes THEN SbxResult(TRUE, <<>>)
        ELSE SbxResult(env # "command failed", vm_infos)

SandboxFrame ==
    UNCHANGED <<agentVars, doneVars, procVars, tabVars, supVars, vmVars, moreVars,
                limaParse, poll, ensure>>

\* `workmux sandbox stop [name] [--all] [--yes]`; a limactl stop that works
\* leaves the VM stopped
RunStop ==
    /\ sbx = NoSandboxCommand
    /\ \E name \in {NoneStr} \cup {SomeStr(n) : n \in SbxNames},
       all \in BOOLEAN, skip_confirm \in BOOLEAN, listing \in SbxListings,
       env \in {"ok", "no limactl", "list failed", "no tty", "command failed"},
       selection \in Selections, answer \in Answers :
        LET r == run_stop(name, all, skip_confirm, listing, env, selection, answer) IN
        /\ sbx' = [op |-> "stop", ok |-> r.ok, acted |-> r.acted,
                   before |-> listing,
                   after |-> [n \in SbxNames |->
                                IF n \in Range(r.acted) /\ env # "command failed"
                                THEN "Stopped" ELSE listing[n]],
                   prompt |-> ~skip_confirm, answer |-> answer]
        /\ SandboxFrame

\* `workmux sandbox prune [--force]`; a limactl delete that works removes
\* the VM
RunPrune ==
    /\ sbx = NoSandboxCommand
    /\ \E force \in BOOLEAN, listing \in SbxListings,
       env \in {"ok", "no limactl", "list failed", "command failed"},
       answer \in Answers :
        LET r == run_prune(force, listing, env, answer) IN
        /\ sbx' = [op |-> "prune", ok |-> r.ok, acted |-> r.acted,
                   before |-> listing,
                   after |-> [n \in SbxNames |->
                                IF n \in Range(r.acted) /\ env # "command failed"
                                THEN "absent" ELSE listing[n]],
                   prompt |-> ~force, answer |-> answer]
        /\ SandboxFrame

InitSandbox == AgentIdle /\ DoneIdle /\ ProcIdle /\ RestIdle

NextSandbox == RunStop \/ RunPrune

SpecSandbox == InitSandbox /\ [][NextSandbox]_vars

\* C40: sandbox stop and sandbox prune run limactl stop or delete only
\* for VMs whose name begins with "wm-", and leave every other VM as it
\* was; stop only for VMs listed as Running; and at a prompt answered with
\* anything but y or yes (in any case, with blanks around it) for none.
C40_StopAndPruneKeepToWorkmuxVms ==
    sbx.op \in {"stop", "prune"} =>
        /\ \A n \in Range(sbx.acted) :
                /\ Len(n) >= 3
                /\ n[1] = "w" /\ n[2] = "m" /\ n[3] = "-"
                /\ sbx.op = "stop" => sbx.before[n] = "Running"
        /\ \A n \in SbxNames : sbx.after[n] # sbx.before[n] => n \in Range(sbx.acted)
        /\ (sbx.prompt /\ sbx.answer \notin {<<"y">>, <<" ", "Y", "E", "S", "\n">>, <<"y", "e", "s">>})
                => sbx.acted = <<>>

\* `stop --all` confirmed at the prompt stopped the two running workmux
\* VMs and left the running VM of another name alone
C40_Witness ==
    /\ sbx.op = "stop" /\ sbx.ok /\ sbx.prompt
    /\ sbx.acted = <<<<"w", "m", "-", "a">>, <<"w", "m", "-", "b">>>>
    /\ sbx.before[<<"x", "w", "m", "-">>] = "Running"
    /\ sbx.after[<<"x", "w", "m", "-">>] = "Running"
    /\ sbx.after[<<"w", "m", "-", "a">>] = "Stopped"

====
